---- MODULE Spec2Model ----
(***************************************************************************)
(* The cache synchronisation and query-resolution engine of                *)
(* ietfdata/datatracker.py (class DataTracker): cache metadata and          *)
(* promotion, the object store with its lookaside cache, the paginated     *)
(* fetch with backoff and bad-request isolation, and the rate limiter.     *)
(*                                                                         *)
(* One run of the model follows one resource type (objType) of the cache   *)
(* hints table.  The remote datatracker is the environment: a fixed set of *)
(* objects 1..NObj, some of them (bad) corrupt in the remote database.     *)
(* Every HTTP GET is one step (Spec takes the isolation loop of a bad     *)
(* page as one step, SpecSteps request by request); the program is single  *)
(* threaded, so exactly one operation is in progress at a time (pc).       *)
(*                                                                         *)
(* Units: the clock counts hours since 1970; retry_time and slept count eighths of a  *)
(* second (1.875 s = 15, 60 s = 480).                                      *)
(* The statistics counters cache_req, cache_hit, memcache_req and          *)
(* memcache_hit are write-only in the source and are left out.             *)
(***************************************************************************)
EXTENDS Integers, Sequences, FiniteSets, TLC

-----------------------------------------------------------------------------
(* Program constants *)

RateLimit == 100
PageLimit == 100
RecoverySpan == 100
PromoteAfter == 100
StaleAfter == 1
RetryStart == 15
RetryLimit == 480
Since == 0
Until == 596523
SortWidth == 40
CharSpace == 32
CharZero == 48
CharQuote == 39
CharOpen == 91
CharClose == 93

(* Bounds of the model *)

NObj == 200
BadId == 154
GoodId == 150
GroupEvery == 77
RecentEvery == 50
PriorQueries == 100
InitClock == 2
PriorTime == 1
MaxClock == 4
LateBadId == 160
MaxMsg == 3
EvalObjs == 6
RefKeyBase == 1000
DocIdBase == 10
MaxOps == 2
MaxFaults == 1
BackoffOps == 1
BackoffFaults == 7
ProgressOps == 1
PriorGets == 99
ConnOps == 2
ProgressFaults == 14

-----------------------------------------------------------------------------
(* The cache hints of the resource types the model follows *)

TypeGroupEvent == "/api/v1/group/groupevent/"
TypeGroupUrl == "/api/v1/group/groupurl/"

(* the registered types the model follows *)
Types == {TypeGroupEvent, TypeGroupUrl}

(* a type of the datatracker that has no entry in self._cache_hints *)
TypeSubmissionCheck == "/api/v1/submit/submissioncheck/"

(* two registered types on which _cache_obj_matches is followed alone: one *)
(* with a deref hint, one whose objects carry a date that may be null      *)
TypeDocEvent == "/api/v1/doc/docevent/"

TypeReviewAssignment == "/api/v1/review/reviewassignment/"

EvalTypes == {TypeDocEvent, TypeReviewAssignment}

(* a registered type whose objects are sorted by two fields *)
TypeBallotType == "/api/v1/doc/ballottype/"

(* the types on which the sort of _cache_get_objects is followed alone *)
SortTypes == {TypeGroupEvent, TypeGroupUrl, TypeBallotType}

(* whether self._cache_hints[t] succeeds; it raises KeyError otherwise *)
Registered(t) == t \in Types \cup EvalTypes \cup SortTypes

(* no deref hint: the empty mapping *)
NoDeref == [f \in {} |-> ""]

CacheHints(t) ==
    CASE t = TypeGroupEvent ->
           [deref |-> NoDeref, trim |-> {"by", "group"}, sort_by |-> <<"id">>,
            reverse |-> TRUE, timed |-> TRUE]
      [] t = TypeDocEvent ->
           [deref |-> [f \in {"doc"} |-> "id"], trim |-> {"by"},
            sort_by |-> <<"id">>, reverse |-> TRUE, timed |-> TRUE]
      [] t = TypeReviewAssignment ->
           [deref |-> NoDeref,
            trim |-> {"result", "review_request", "reviewer", "state"},
            sort_by |-> <<"id">>, reverse |-> FALSE, timed |-> FALSE]
      [] t = TypeBallotType ->
           [deref |-> NoDeref, trim |-> {"doc_type"},
            sort_by |-> <<"order", "id">>, reverse |-> FALSE, timed |-> FALSE]
      [] OTHER ->
           [deref |-> NoDeref, trim |-> {"group"}, sort_by |-> <<"id">>,
            reverse |-> FALSE, timed |-> FALSE]

-----------------------------------------------------------------------------
(* URIs.  A URI is its path and its parameters: id = 0 is the collection   *)
(* of the type, id = k the object k; params is the ordered parameter list, *)
(* each parameter <<field, suffix, value>> (name = field ++ suffix).       *)

URI(id, params) == [id |-> id, params |-> params]

Param(field, suffix, value) == <<field, suffix, value>>

IsTimeRange(p) == p[1] = "time" /\ p[2] \in {"__gte", "__lt"}

NotTimeRange(p) == ~IsTimeRange(p)

(* cache_uri that keeps every parameter of the query *)
CacheUriKeepTime(uri) == URI(uri.id, uri.params)

(* cache_uri: the query without its time__gte / time__lt parameters *)
CacheUri(uri) == URI(uri.id, SelectSeq(uri.params, NotTimeRange))

-----------------------------------------------------------------------------
(* The remote datatracker (environment).  Object k has id k; its JSON is   *)
(* fixed for the whole run.                                                *)

None == [kind |-> "none", id |-> 0]

ObjectJson(k) == [kind |-> "object", id |-> k]

(* the JSON of a collection response to a limit=1 request; the program   *)
(* never reads it back, and its content is not tracked                     *)
ResponseJson(k) == [kind |-> "response", id |-> 0]

ObjGroup(k) == IF k % GroupEvery = 0 THEN 1 ELSE 2

(* the objects modified last carry the time at which the run starts *)
ObjTime(k) == IF k % RecentEvery = 0 THEN InitClock ELSE 0

Field(json, f) ==
    CASE f = "id" -> json.id
      [] f = "group" -> <<"/api/v1/group/group/", ObjGroup(json.id)>>
      [] f = "time" -> ObjTime(json.id)
      [] f = "completed_on" -> json.id
      [] f = "order" -> json.id % 3
      [] OTHER -> 0

(* The JSON type of a field: "none" for null, "str" for a string that is  *)
(* a URI, "list" for a list of URIs, "text" for any other string, "val"    *)
(* for a number or a date.  The references, the text and the nullable date *)
(* of the objects 1..EvalObjs take every one of their types in turn.       *)
FieldShape(json, f) ==
    CASE f = "group" -> "str"
      [] f \in {"by", "reviewer", "doc"} ->
           CASE json.id % 3 = 0 -> "none"
             [] json.id % 3 = 1 -> "str"
             [] OTHER -> "list"
      [] f = "completed_on" -> IF json.id % 2 = 0 THEN "none" ELSE "val"
      [] f = "desc" -> "text"
      [] OTHER -> "val"

(* the URIs of a reference field: <<path, last segment>> each *)
FieldRefs(json, f) ==
    CASE f = "group" -> <<Field(json, f)>>
      [] f \in {"by", "reviewer"} ->
           CASE FieldShape(json, f) = "str" ->
                  <<<<"/api/v1/person/person/", 1>>>>
             [] FieldShape(json, f) = "list" ->
                  <<<<"/api/v1/person/person/", 2>>,
                    <<"/api/v1/person/person/", 1>>>>
             [] OTHER -> <<>>
      [] f = "doc" ->
           CASE FieldShape(json, f) = "str" ->
                  <<<<"/api/v1/doc/document/", json.id>>>>
             [] FieldShape(json, f) = "list" ->
                  <<<<"/api/v1/doc/document/", EvalObjs + 1>>,
                    <<"/api/v1/doc/document/", 1>>>>
             [] OTHER -> <<>>
      [] OTHER -> <<>>

(* the characters of a text field *)
FieldText(json, f) == {json.id % 2, 2}

(* the object a reference URI names, as _retrieve_json returns it: the    *)
(* documents 1..EvalObjs exist, and the id of a document is not the last   *)
(* segment of its URI                                                      *)
DerefJson(ref) ==
    IF ref[2] \in 1..EvalObjs
    THEN [kind |-> "object", id |-> DocIdBase + ref[2]]
    ELSE None

AllIds == [k \in 1..NObj |-> k]

(* the filter of the remote service on one parameter *)
ServerParamHolds(k, p) ==
    CASE p[2] = "__gte" -> Field(ObjectJson(k), p[1]) >= p[3]
      [] p[2] = "__lt" -> Field(ObjectJson(k), p[1]) < p[3]
      [] p[1] = "group" -> ObjGroup(k) = p[3]
      [] OTHER -> Field(ObjectJson(k), p[1]) = p[3]

ServerMatches(k, params) ==
    \A n \in 1..Len(params) : ServerParamHolds(k, params[n])

(* the objects a collection request selects, in the order of the service *)
ServerList(params) ==
    LET Sel(k) == ServerMatches(k, params)
    IN IF params = <<>> THEN AllIds ELSE SelectSeq(AllIds, Sel)

Min(a, b) == IF a < b THEN a ELSE b

(* the ids of the requested range of the list l *)
ServerPage(l, offset, limit) ==
    {l[n] : n \in (offset + 1)..Min(offset + limit, Len(l))}

-----------------------------------------------------------------------------
(* State *)

VARIABLES
    objType,      \* the resource type of this run
    bad,          \* ids of the records that are corrupt in the remote database
    clock,        \* wall clock
    metaFile,     \* _cache_info.json of the type, or NoMeta
    files,        \* the object files on disk: key -> JSON (key 0: <type>.json,
                  \* key RefMetaKey: _cache_info.json of the referenced type)
    memcache,     \* self.memcache: key -> JSON
    http_req,     \* self.http_req
    get_count,    \* self.get_count
    conn,         \* GETs carried by the connection of self.session that
                  \* carried the last request
    closes,       \* session.close() calls made by _rate_limit
    errCloses,    \* session.close() calls made by the 500 handler
    pc,           \* position of the running operation
    op,           \* the running operation: kind, uri, get_count at its start
    cont,         \* where _cache_update returns to
    now,          \* the local `now` of _cache_update
    sess,         \* locals of _cache_put_objects
    rec,          \* locals of the isolation loop of _cache_put_objects
    result,       \* what the last operation returned
    exitCause,    \* the message of the sys.exit(1) that ended the process
    opsLeft,      \* operations the callers still start
    faultsLeft,   \* server faults (500, 503) still to come
    firstAnswer,  \* history: query -> ids of its first network answer
    mail          \* a MailingList, its cache folder and the IMAP folder of the
                  \* list: the MailingList of mailarchive.py

(* the variables of the DataTracker *)
dtVars == <<objType, bad, clock, metaFile, files, memcache, http_req, get_count,
            conn, closes, errCloses, pc, op, cont, now, sess, rec, result,
            exitCause, opsLeft, faultsLeft, firstAnswer>>

vars == <<objType, bad, clock, metaFile, files, memcache, http_req, get_count, conn,
          closes, errCloses, pc, op, cont, now, sess, rec, result, exitCause,
          opsLeft, faultsLeft, firstAnswer, mail>>

(* no MailingList object *)
NoMail == [pc |-> "none", server |-> {}, msgs |-> {}, downloads |-> {},
           cut |-> {}, num_messages |-> 0, aa_cache |-> FALSE, msg_list |-> {},
           msg_fetch |-> {}, todo |-> {}, new_msgs |-> {}, msg_id |-> 0,
           updates |-> 0, kills |-> 0]

NoInt == -1

(* complete: the file holds the whole JSON text that a save wrote *)
NoMeta == [created |-> NoInt, updated |-> NoInt, partial |-> TRUE,
           queries |-> <<>>, exists |-> FALSE, complete |-> TRUE]

CacheMetadata(created, updated, partial, queries) ==
    [created |-> created, updated |-> updated, partial |-> partial,
     queries |-> queries, exists |-> TRUE, complete |-> TRUE]

(* _cache_info.json opened for writing and truncated, its text not (all)  *)
(* written                                                                 *)
TornMeta == [created |-> NoInt, updated |-> NoInt, partial |-> TRUE,
             queries |-> <<>>, exists |-> TRUE, complete |-> FALSE]

(* whether _cache_load_metadata can parse the file; json.load raises      *)
(* otherwise                                                               *)
Readable(meta) == meta.complete

NoOp == [kind |-> "none", uri |-> URI(0, <<>>), branch |-> "none", gets |-> 0,
         files |-> <<>>, memcache |-> <<>>]

NoSess == [purpose |-> "none", offset |-> NoInt, filter |-> <<>>,
           total |-> NoInt, retry_time |-> 0, retrying |-> FALSE, slept |-> 0,
           status |-> NoInt]

NoRec == [i |-> 0, finish |-> 0, failed |-> FALSE, skipped |-> 0, stored |-> 0]

EmptyStore == [k \in {} |-> None]

hints == CacheHints(objType)

-----------------------------------------------------------------------------
(* The queries and object URIs the callers use *)

(* group_events(since, until, group): group = 0 stands for no group *)
GroupEvents(since, until, group) ==
    URI(0, <<Param("time", "__gte", since), Param("time", "__lt", until)>>
           \o (IF group # 0 THEN <<Param("group", "", group)>> ELSE <<>>))

(* group_urls(group) *)
GroupUrls(group) ==
    URI(0, IF group # 0 THEN <<Param("group", "", group)>> ELSE <<>>)

QAll ==
    IF objType = TypeGroupEvent THEN GroupEvents(Since, Until, 0) ELSE GroupUrls(0)

QGroup ==
    IF objType = TypeGroupEvent THEN GroupEvents(Since, Until, 1) ELSE GroupUrls(1)

(* the events of group 1 before the run started *)
QGroupTimed == GroupEvents(Since, InitClock, 1)

(* a query recorded by an earlier run that selected nothing: the objects  *)
(* of a group no object belongs to                                         *)
PriorQuery(k) == URI(0, <<Param("group", "", NObj + k)>>)

ObjUri(k) == URI(k, <<>>)

Queries ==
    {QAll, QGroup} \cup (IF objType = TypeGroupEvent THEN {QGroupTimed} ELSE {})

GetIds == {GoodId, BadId, NObj + 1}

-----------------------------------------------------------------------------
(* Cache metadata *)

(* a test of membership in a list that never finds the entry *)
InSeqNever(x, s) == FALSE

InSeq(x, s) == \E n \in 1..Len(s) : s[n] = x

(* _cache_create that keeps only the metadata of a partial cache *)
CacheCreateUnlessPartial(meta) ==
    IF meta.exists /\ meta.partial
    THEN meta
    ELSE CacheMetadata(clock, clock, TRUE, <<>>)

(* _cache_create that stamps the metadata it finds *)
CacheCreateTouch(meta) ==
    IF meta.exists
    THEN [meta EXCEPT !.updated = clock]
    ELSE CacheMetadata(clock, clock, TRUE, <<>>)

(* _cache_create: the metadata a type has after it *)
CacheCreate(meta) ==
    IF meta.exists THEN meta ELSE CacheMetadata(clock, clock, TRUE, <<>>)

(* _cache_record_query: the metadata after uri is recorded *)
CacheRecordQuery(meta, uri) ==
    IF meta.partial
    THEN IF ~InSeq(CacheUri(uri), meta.queries)
         THEN [meta EXCEPT !.queries = Append(meta.queries, CacheUri(uri))]
         ELSE meta
    ELSE meta

(* _cache_has_all_objects that never reports a full cache *)
CacheHasAllObjectsNever(meta) == FALSE

CacheHasAllObjects(meta) == ~meta.partial

CacheHasObjects(meta, uri) == InSeq(uri, meta.queries)

-----------------------------------------------------------------------------
(* Object store *)

MemcacheHasObject(k) == k \in DOMAIN memcache

(* _cache_has_object that never finds the object *)
CacheHasObjectNever(k) == FALSE

(* _cache_has_object that does not ask whether the type is fully cached *)
CacheHasObjectLocal(k) ==
    IF MemcacheHasObject(k)
    THEN TRUE
    ELSE k \in DOMAIN files

CacheHasObject(k) ==
    IF MemcacheHasObject(k)
    THEN TRUE
    ELSE IF k \in DOMAIN files
         THEN TRUE
         ELSE CacheHasAllObjects(metaFile)

(* what _cache_get_object returns *)
CacheGetObject(k) ==
    IF MemcacheHasObject(k)
    THEN memcache[k]
    ELSE IF k \in DOMAIN files THEN files[k] ELSE None

(* self.memcache after _cache_get_object for each key of ks *)
MemcacheAfterGet(ks) ==
    [k \in DOMAIN memcache \cup (ks \cap DOMAIN files) |->
        IF k \in DOMAIN memcache THEN memcache[k] ELSE files[k]]

(* a store (disk or memcache) after key is written *)
StorePut(store, key, json) ==
    [k \in DOMAIN store \cup {key} |-> IF k = key THEN json ELSE store[k]]

(* a store after the objects of one page are written, each under its own  *)
(* resource_uri                                                            *)
StorePutPage(store, ids) ==
    [k \in DOMAIN store \cup ids |->
        IF k \in ids THEN ObjectJson(k) ELSE store[k]]

(* a _cache_put_object that leaves the file as it was *)
CachePutObjectMemcache(key, json) ==
    /\ files' = files
    /\ memcache' = StorePut(memcache, key, json)

(* _cache_put_object: the file and the memcache entry *)
CachePutObject(key, json) ==
    /\ files' = StorePut(files, key, json)
    /\ memcache' = StorePut(memcache, key, json)

(* a _cache_put_object that stamps the metadata with the time of the write *)
MetaAfterPutStamped(meta) == [CacheCreate(meta) EXCEPT !.updated = clock]

(* _cache_put_object calls _cache_create when the directory of the type   *)
(* does not exist; the directory and its metadata are created together    *)
MetaAfterPut(meta) == CacheCreate(meta)

-----------------------------------------------------------------------------
(* The local predicate evaluator *)

IdSuffix(ref) == ref[2]

IsTrim(p) == p[2] = "" /\ p[1] \in hints.trim

IsDeref(p) == p[2] = "" /\ p[1] \in DOMAIN hints.deref

(* whether one parameter of _cache_obj_matches ends the call: sys.exit(1)  *)
(* for a trim or deref field that is neither null, a list nor a string,    *)
(* TypeError for a comparison with, or a membership test in, null          *)
ParamRaises(json, p) ==
    IF IsTrim(p) \/ IsDeref(p)
    THEN FieldShape(json, p[1]) \notin {"none", "list", "str"}
    ELSE IF p[2] \in {"__contains", "__gte", "__gt", "__lte", "__lt"}
         THEN FieldShape(json, p[1]) = "none"
         ELSE FALSE

(* one parameter of _cache_obj_matches: FALSE where res is set to False *)
ParamMatches(json, p) ==
    IF IsTrim(p)
    THEN CASE FieldShape(json, p[1]) = "none" -> FALSE
           [] FieldShape(json, p[1]) = "list" ->
                \E n \in 1..Len(FieldRefs(json, p[1])) :
                    IdSuffix(FieldRefs(json, p[1])[n]) = p[3]
           [] OTHER -> IdSuffix(FieldRefs(json, p[1])[1]) = p[3]
    ELSE IF IsDeref(p)
    THEN CASE FieldShape(json, p[1]) = "none" -> FALSE
           [] FieldShape(json, p[1]) = "list" ->
                \E n \in 1..Len(FieldRefs(json, p[1])) :
                    /\ DerefJson(FieldRefs(json, p[1])[n]) # None
                    /\ p[3] = Field(DerefJson(FieldRefs(json, p[1])[n]),
                                    hints.deref[p[1]])
           [] OTHER ->
                ~(\/ DerefJson(FieldRefs(json, p[1])[1]) = None
                  \/ p[3] # Field(DerefJson(FieldRefs(json, p[1])[1]),
                                  hints.deref[p[1]]))
    ELSE CASE p[2] = "__contains" -> p[3] \in FieldText(json, p[1])
           [] p[2] = "__gte" -> ~(Field(json, p[1]) < p[3])
           [] p[2] = "__gt" -> ~(Field(json, p[1]) <= p[3])
           [] p[2] = "__lte" -> ~(Field(json, p[1]) > p[3])
           [] p[2] = "__lt" -> ~(Field(json, p[1]) >= p[3])
           [] OTHER -> ~(FieldShape(json, p[1]) # "val"
                         \/ Field(json, p[1]) # p[3])

(* Dereferencing.  self.memcache and the cache directory hold the objects  *)
(* of every type under their URIs: the object a reference names has the    *)
(* key RefKeyBase + the last segment of its URI.  The directory of the     *)
(* referenced type exists and is a partial cache.                          *)
RefKey(ref) == RefKeyBase + ref[2]

(* the key of the _cache_info.json of the type of the referenced objects *)
RefMetaKey == RefKeyBase

(* the metadata _cache_create writes for the type of the referenced       *)
(* objects: a partial cache                                                *)
RefMeta == [kind |-> "metadata", id |-> 0]

(* _cache_has_object that finds no referenced object in the cache *)
RefCachedNever(ref) == FALSE

(* _cache_has_object for a referenced object, its type a partial cache *)
RefCached(ref) ==
    IF RefKey(ref) \in DOMAIN memcache
    THEN TRUE
    ELSE RefKey(ref) \in DOMAIN files

(* whether a call of _cache_has_object for the references v raises        *)
(* FileNotFoundError: a reference is neither in the memcache nor on disk,  *)
(* _cache_has_all_objects loads the metadata of its type, and the type has *)
(* no _cache_info.json                                                     *)
RefRaises(v) ==
    /\ RefMetaKey \notin DOMAIN files
    /\ \E n \in 1..Len(v) : ~RefCached(v[n])

(* the references one parameter passes to _retrieve_json, in order: none   *)
(* unless it is a deref parameter; the one of a string; those of a list up *)
(* to the first whose object has the value                                 *)
Visits(json, p) ==
    IF IsTrim(p) \/ ~IsDeref(p) \/ FieldShape(json, p[1]) \notin {"str", "list"}
    THEN <<>>
    ELSE LET refs == FieldRefs(json, p[1])
             Found(n) == /\ DerefJson(refs[n]) # None
                         /\ p[3] = Field(DerefJson(refs[n]), hints.deref[p[1]])
             hits == {n \in 1..Len(refs) : Found(n)}
         IN IF FieldShape(json, p[1]) = "str" \/ hits = {}
            THEN refs
            ELSE SubSeq(refs, 1, CHOOSE n \in hits : \A m \in hits : n <= m)

(* the references parameters n.. pass to _retrieve_json, up to the first  *)
(* parameter that ends the call                                            *)
RECURSIVE AllVisits(_, _, _)
AllVisits(json, params, n) ==
    IF n > Len(params) \/ ParamRaises(json, params[n])
    THEN <<>>
    ELSE Visits(json, params[n]) \o AllVisits(json, params, n + 1)

(* the calls of _retrieve_json, among those for the references v, that    *)
(* issue a GET: the object is not cached and no earlier call has stored it *)
FetchingVisits(v) ==
    {n \in 1..Len(v) :
        /\ ~RefCached(v[n])
        /\ DerefJson(v[n]) = None \/ \A m \in 1..(n - 1) : v[m] # v[n]}

(* a store after the referenced objects of ks are written to it *)
StorePutRefs(store, ks) ==
    [k \in DOMAIN store \cup {RefKey(r) : r \in ks} |->
        IF k \in DOMAIN store
        THEN store[k]
        ELSE DerefJson(CHOOSE r \in ks : RefKey(r) = k)]

(* whether _cache_obj_matches ends without returning *)
CacheObjRaises(json, params) ==
    \E n \in 1..Len(params) : ParamRaises(json, params[n])

CacheObjMatches(json, params) ==
    \A n \in 1..Len(params) : ParamMatches(json, params[n])

Reverse(s) == [n \in 1..Len(s) |-> s[Len(s) + 1 - n]]

(* _cache_get_objects: the ids of the matching objects on disk, sorted by *)
(* the sort key (the id, right aligned in 40 columns)                      *)
CacheGetObjects(params) ==
    LET Hit(k) == k \in DOMAIN files /\ CacheObjMatches(CacheGetObject(k), params)
        sorted == SelectSeq(AllIds, Hit)
    IN IF hints.reverse THEN Reverse(sorted) ELSE sorted

Range(s) == {s[n] : n \in 1..Len(s)}

(* The sort of _cache_get_objects.  A string is the sequence of its code  *)
(* points.                                                                 *)

(* str(n) for n >= 0 *)
RECURSIVE Digits(_)
Digits(n) ==
    IF n < 10 THEN <<CharZero + n>>
    ELSE Digits(n \div 10) \o <<CharZero + (n % 10)>>

(* format(n, "40") with the number at the left, as a string is placed *)
FormatLeft(n) ==
    Digits(n) \o [i \in 1..(SortWidth - Len(Digits(n))) |-> CharSpace]

(* format(n, "40"): a number is right aligned in 40 columns *)
Format(n) ==
    [i \in 1..(SortWidth - Len(Digits(n))) |-> CharSpace] \o Digits(n)

(* sort_key: " " and the formatted field, for each field of sort_by *)
RECURSIVE SortKeyFrom(_, _, _)
SortKeyFrom(json, sort_by, n) ==
    IF n > Len(sort_by) THEN <<>>
    ELSE <<CharSpace>> \o Format(Field(json, sort_by[n]))
         \o SortKeyFrom(json, sort_by, n + 1)

SortKey(json) == SortKeyFrom(json, hints.sort_by, 1)

(* a < b for two strings *)
StrLess(a, b) ==
    \/ \E i \in 1..Min(Len(a), Len(b)) :
          /\ a[i] < b[i]
          /\ \A j \in 1..(i - 1) : a[j] = b[j]
    \/ /\ Len(a) < Len(b)
       /\ \A j \in 1..Len(a) : a[j] = b[j]

(* results.sort(key=_sort_objs, reverse=hints.reverse) of the ids listed  *)
(* in glob, each with its key: the sort is stable, also when reversed      *)
SortObjs(glob) ==
    LET key(i) == SortKey(ObjectJson(glob[i]))
        before(i, j) == IF hints.reverse THEN StrLess(key(j), key(i))
                        ELSE StrLess(key(i), key(j))
        rank(i) == Cardinality({j \in 1..Len(glob) : before(j, i)})
                   + Cardinality({j \in 1..(i - 1) : key(j) = key(i)})
    IN [n \in 1..Len(glob) |->
           glob[CHOOSE i \in 1..Len(glob) : rank(i) = n - 1]]

-----------------------------------------------------------------------------
(* Responses of the remote service (environment) *)

(* a collection request over a range that holds a corrupt record is       *)
(* answered 400, any other 200; a fault answers 500 or 503                 *)
PageStatuses(page) ==
    {IF page \cap bad # {} THEN 400 ELSE 200}
    \cup (IF faultsLeft > 0 THEN {500, 503} ELSE {})

(* an object request: 404 for an id no object has, 400 for a corrupt one  *)
ItemStatuses(k) ==
    {IF k \notin 1..NObj THEN 404 ELSE IF k \in bad THEN 400 ELSE 200}
    \cup (IF faultsLeft > 0 THEN {500} ELSE {})

(* the object a limit=1 request at offset i selects, 0 for none *)
SingleAt(l, i) == IF i < Len(l) THEN l[i + 1] ELSE 0

SingleStatuses(single) ==
    {IF single \in bad THEN 400 ELSE 200}
    \cup (IF faultsLeft > 0 THEN {500} ELSE {})

(* meta.next of a page: the offset of the next page, or NoInt for null *)
NextOffset(offset, total) ==
    IF offset + PageLimit < total THEN offset + PageLimit ELSE NoInt

-----------------------------------------------------------------------------
(* Steps of the program *)

(* sys.exit(1) left out: the fetch returns to its caller *)
ExitIgnored(cause) ==
    /\ pc' = "fetch_done"
    /\ exitCause' = cause

(* sys.exit(1) *)
Exit(cause) ==
    /\ pc' = "exited"
    /\ exitCause' = cause

(* the operation returns to its caller *)
Return(value) ==
    /\ pc' = "idle"
    /\ result' = value
    /\ op' = NoOp
    /\ cont' = "none"
    /\ now' = NoInt
    /\ sess' = NoSess
    /\ rec' = NoRec

(* _rate_limit *)
RateLimitStep ==
    /\ http_req' = http_req + 1
    /\ closes' = IF (http_req + 1) % RateLimit = 0 THEN closes + 1 ELSE closes

(* the connection of self.session: no request sent yet *)
NoConn == 0

(* session.close(): the next request opens a new connection *)
ConnClose(c) == NoConn

(* a _rate_limit that closes the session one request later *)
ConnRateLimitLate(c, h) ==
    IF h % (RateLimit + 1) = 0 THEN ConnClose(c) ELSE c

(* the connection after the _rate_limit that makes http_req = h *)
ConnRateLimit(c, h) ==
    IF h % RateLimit = 0 THEN ConnClose(c) ELSE c

(* session.get *)
ConnGet(c) == c + 1

(* n times _rate_limit and session.get, http_req being h before them:   *)
(* closing holds the values of http_req at which _rate_limit closes the   *)
(* session, and the connection of the last request has carried the        *)
(* requests since the last of them                                         *)
ConnSteps(c, h, n) ==
    LET closing == {x \in (h + 1)..(h + n) :
                       ConnRateLimit(ConnGet(NoConn), x) = NoConn}
        last == CHOOSE x \in closing : \A y \in closing : x >= y
    IN IF closing = {} THEN c + n ELSE (h + n) - last + 1

(* _rate_limit called n times *)
RateLimitSteps(n) ==
    /\ http_req' = http_req + n
    /\ closes' = closes + ((http_req + n) \div RateLimit) - (http_req \div RateLimit)

(* the locals of _cache_put_objects at its start: offset stands for       *)
(* obj_uri (0 for the first URL, NoInt once meta.next is null)             *)
StartSess(purpose, filter) ==
    [purpose |-> purpose, offset |-> 0, filter |-> filter, total |-> NoInt,
     retry_time |-> 0, retrying |-> FALSE, slept |-> 0, status |-> NoInt]

StartOp(kind, uri, branch) ==
    [kind |-> kind, uri |-> uri, branch |-> branch, gets |-> get_count,
     files |-> files, memcache |-> memcache]

(* _retrieve: getOne(uri) *)
Retrieve(k) ==
    /\ pc = "idle"
    /\ opsLeft > 0
    /\ opsLeft' = opsLeft - 1
    /\ op' = StartOp("getOne", ObjUri(k), "none")
    /\ pc' = "cache_update"
    /\ cont' = "retrieve_json"
    /\ UNCHANGED <<mail, objType, bad, clock, metaFile, files, memcache, http_req,
                   get_count, conn, closes, errCloses, now, sess, rec, result,
                   exitCause, faultsLeft, firstAnswer>>

(* _retrieve_multi up to its branch: queryMany(uri) *)
RetrieveMulti(uri) ==
    /\ pc = "idle"
    /\ opsLeft > 0
    /\ opsLeft' = opsLeft - 1
    /\ metaFile' = CacheCreate(metaFile)
    /\ cont' = "answer"
    /\ IF ~Readable(metaFile')
       THEN /\ op' = StartOp("queryMany", uri, "none")
            /\ Exit("metadata unreadable")
            /\ sess' = NoSess
       ELSE /\ UNCHANGED exitCause
            /\ IF CacheHasObjects(metaFile', CacheUri(uri))
                  \/ CacheHasAllObjects(metaFile')
               THEN /\ op' = StartOp("queryMany", uri, "disk")
                    /\ pc' = "cache_update"
                    /\ sess' = NoSess
               ELSE /\ op' = StartOp("queryMany", uri, "network")
                    /\ pc' = "fetching"
                    /\ sess' = StartSess("query", CacheUri(uri).params)
    /\ UNCHANGED <<mail, objType, bad, clock, files, memcache, http_req, get_count, conn,
                   closes, errCloses, now, rec, result, faultsLeft,
                   firstAnswer>>

(* the staleness test of _cache_update without its look at hints.timed *)
CheckStaleAnyType(meta, n) ==
    IF n - meta.updated > StaleAfter
    THEN /\ UNCHANGED exitCause
         /\ sess' = StartSess("refresh",
                              <<Param("time", "__gte", meta.updated),
                                Param("time", "__lt", n)>>)
         /\ pc' = "fetching"
    ELSE /\ sess' = NoSess
         /\ pc' = cont
         /\ UNCHANGED exitCause

(* a delta fetch that starts at the creation time of the cache *)
CheckStaleFromCreated(meta, n) ==
    IF n - meta.updated > StaleAfter
    THEN IF ~Registered(objType)
         THEN /\ Exit("KeyError")
              /\ sess' = NoSess
         ELSE /\ UNCHANGED exitCause
              /\ IF hints.timed
                 THEN /\ sess' = StartSess("refresh",
                                           <<Param("time", "__gte", meta.created),
                                             Param("time", "__lt", n)>>)
                      /\ pc' = "fetching"
                 ELSE /\ sess' = NoSess
                      /\ pc' = cont
    ELSE /\ sess' = NoSess
         /\ pc' = cont
         /\ UNCHANGED exitCause

(* _cache_update from `Do we need to update the cache?` on *)
CheckStale(meta, n) ==
    IF n - meta.updated > StaleAfter
    THEN IF ~Registered(objType)
         THEN /\ Exit("KeyError")
              /\ sess' = NoSess
         ELSE /\ UNCHANGED exitCause
              /\ IF hints.timed
                 THEN /\ sess' = StartSess("refresh",
                                           <<Param("time", "__gte", meta.updated),
                                             Param("time", "__lt", n)>>)
                      /\ pc' = "fetching"
                 ELSE /\ sess' = NoSess
                      /\ pc' = cont
    ELSE /\ sess' = NoSess
         /\ pc' = cont
         /\ UNCHANGED exitCause

(* the test of _cache_update with `>=` in place of `>` *)
ShouldPromoteAtLimit(meta) == meta.partial /\ Len(meta.queries) >= PromoteAfter

(* whether _cache_update switches the type to a full cache *)
ShouldPromote(meta) == meta.partial /\ Len(meta.queries) > PromoteAfter

(* _cache_update up to its first fetch *)
CacheUpdate ==
    /\ pc = "cache_update"
    /\ metaFile' = CacheCreate(metaFile)
    /\ now' = clock
    /\ IF ~Readable(metaFile')
       THEN /\ Exit("metadata unreadable")
            /\ sess' = NoSess
       ELSE IF ShouldPromote(metaFile')
            THEN /\ sess' = StartSess("promote", <<>>)
                 /\ pc' = "fetching"
                 /\ UNCHANGED exitCause
            ELSE CheckStale(metaFile', clock)
    /\ UNCHANGED <<mail, objType, bad, clock, files, memcache, http_req, get_count, conn,
                   closes, errCloses, op, cont, rec, result, opsLeft,
                   faultsLeft, firstAnswer>>

-----------------------------------------------------------------------------
(* _cache_put_objects: one step for each page request *)

(* status 200: the objects of the page are written, obj_uri = meta.next *)
Page200(s0, off, page, tot) ==
    /\ files' = StorePutPage(files, page)
    /\ memcache' = StorePutPage(memcache, page)
    /\ metaFile' = IF page # {} THEN MetaAfterPut(metaFile) ELSE metaFile
    /\ sess' = [s0 EXCEPT !.offset = NextOffset(off, tot), !.total = tot,
                          !.retrying = FALSE]
    /\ pc' = IF NextOffset(off, tot) = NoInt THEN "fetch_done" ELSE "fetching"
    /\ UNCHANGED <<errCloses, rec, exitCause, faultsLeft>>

(* the 500 handler giving up once retry_time has reached its limit *)
Page500AtLimit(s0) ==
    /\ IF s0.retry_time >= RetryLimit
       THEN /\ Exit("retry_time exceeded")
            /\ sess' = s0
            /\ UNCHANGED errCloses
       ELSE /\ errCloses' = errCloses + 1
            /\ sess' = [s0 EXCEPT !.slept = s0.slept + s0.retry_time,
                                  !.retry_time = s0.retry_time * 2,
                                  !.retrying = TRUE]
            /\ pc' = "fetching"
            /\ UNCHANGED exitCause
    /\ faultsLeft' = faultsLeft - 1
    /\ UNCHANGED <<files, memcache, metaFile, rec>>

(* the 500 handler with its limit on retry_time doubled *)
Page500Late(s0) ==
    /\ IF s0.retry_time > 2 * RetryLimit
       THEN /\ Exit("retry_time exceeded")
            /\ sess' = s0
            /\ UNCHANGED errCloses
       ELSE /\ errCloses' = errCloses + 1
            /\ sess' = [s0 EXCEPT !.slept = s0.slept + s0.retry_time,
                                  !.retry_time = s0.retry_time * 2,
                                  !.retrying = TRUE]
            /\ pc' = "fetching"
            /\ UNCHANGED exitCause
    /\ faultsLeft' = faultsLeft - 1
    /\ UNCHANGED <<files, memcache, metaFile, rec>>

(* status 500: close, sleep, double the retry time, same page again *)
Page500(s0) ==
    /\ IF s0.retry_time > RetryLimit
       THEN /\ Exit("retry_time exceeded")
            /\ sess' = s0
            /\ UNCHANGED errCloses
       ELSE /\ errCloses' = errCloses + 1
            /\ sess' = [s0 EXCEPT !.slept = s0.slept + s0.retry_time,
                                  !.retry_time = s0.retry_time * 2,
                                  !.retrying = TRUE]
            /\ pc' = "fetching"
            /\ UNCHANGED exitCause
    /\ faultsLeft' = faultsLeft - 1
    /\ UNCHANGED <<files, memcache, metaFile, rec>>

(* the 400 handler without its test of total *)
Page400AnyTotal(s0) ==
    /\ rec' = [i |-> s0.offset,
               finish |-> IF s0.offset < s0.total
                          THEN s0.offset + RecoverySpan
                          ELSE s0.total,
               failed |-> TRUE, skipped |-> 0, stored |-> 0]
    /\ pc' = "recovering"
    /\ sess' = s0
    /\ UNCHANGED <<files, memcache, metaFile, errCloses, faultsLeft,
                   exitCause>>

(* status 400 with a known total: isolate the bad request *)
Page400(s0) ==
    /\ IF s0.total # NoInt
       THEN /\ rec' = [i |-> s0.offset,
                       finish |-> IF s0.offset < s0.total
                                  THEN s0.offset + RecoverySpan
                                  ELSE s0.total,
                       failed |-> TRUE, skipped |-> 0, stored |-> 0]
            /\ pc' = "recovering"
            /\ UNCHANGED exitCause
       ELSE /\ Exit("error status")
            /\ UNCHANGED rec
    /\ sess' = s0
    /\ UNCHANGED <<files, memcache, metaFile, errCloses, faultsLeft>>

(* the exit on any other status, preceded by the removal of the files the *)
(* operation has written                                                   *)
PageOtherRollback(s0) ==
    /\ Exit("error status")
    /\ sess' = s0
    /\ faultsLeft' = faultsLeft - 1
    /\ files' = op.files
    /\ UNCHANGED <<memcache, metaFile, errCloses, rec>>

(* any other status *)
PageOther(s0) ==
    /\ Exit("error status")
    /\ sess' = s0
    /\ faultsLeft' = faultsLeft - 1
    /\ UNCHANGED <<files, memcache, metaFile, errCloses, rec>>

(* _rate_limit runs at the top of the outer loop, not before a retry,  *)
(* which follows the session.close() of the 500 handler                  *)
PageRateLimit ==
    IF sess.retrying THEN UNCHANGED <<http_req, closes>> ELSE RateLimitStep

(* one request of the while loops of _cache_put_objects; retry_time is    *)
(* 1.875 at the top of the outer loop                                      *)
PageGet ==
    /\ pc = "fetching"
    /\ LET off == sess.offset
           l == ServerList(sess.filter)
           page == ServerPage(l, off, PageLimit)
           s0 == IF sess.retrying
                 THEN sess
                 ELSE [sess EXCEPT !.retry_time = RetryStart, !.slept = 0]
           c0 == IF sess.retrying THEN ConnClose(conn)
                 ELSE ConnRateLimit(conn, http_req + 1)
       IN /\ PageRateLimit
          /\ get_count' = get_count + 1
          /\ \E status \in PageStatuses(page) :
                LET s1 == [s0 EXCEPT !.status = status]
                IN CASE status = 200 -> Page200(s1, off, page, Len(l))
                     [] status = 500 -> Page500(s1)
                     [] status = 400 -> Page400(s1)
                     [] OTHER -> PageOther(s1)
          /\ conn' = ConnGet(c0)
    /\ UNCHANGED <<mail, objType, bad, clock, op, cont, now, result, opsLeft,
                   firstAnswer>>

(* one limit=1 request of the isolation loop *)
RecoverGet ==
    /\ pc = "recovering"
    /\ rec.i < rec.finish
    /\ get_count' = get_count + 1
    /\ RateLimitStep
    /\ conn' = ConnSteps(conn, http_req, 1)
    /\ LET single == SingleAt(ServerList(sess.filter), rec.i)
       IN \E status \in SingleStatuses(single) :
             CASE status = 200 ->
                    /\ CachePutObject(0, ResponseJson(single))
                    /\ rec' = [rec EXCEPT !.failed = FALSE, !.i = rec.i + 1,
                                          !.stored = rec.stored + 1]
                    /\ UNCHANGED <<pc, exitCause, faultsLeft>>
               [] status = 400 ->
                    /\ rec' = [rec EXCEPT !.skipped = rec.skipped + 1,
                                          !.i = rec.i + 1]
                    /\ UNCHANGED <<files, memcache, pc, exitCause, faultsLeft>>
               [] OTHER ->
                    /\ Exit("error status")
                    /\ faultsLeft' = faultsLeft - 1
                    /\ UNCHANGED <<files, memcache, rec>>
    /\ UNCHANGED <<mail, objType, bad, clock, metaFile, errCloses, op, cont, now,
                   sess, result, opsLeft, firstAnswer>>

(* after the isolation loop: give up, or construct the next range URL *)
RecoverEnd ==
    /\ pc = "recovering"
    /\ rec.i >= rec.finish
    /\ IF rec.failed
       THEN /\ Exit("no request in range")
            /\ UNCHANGED sess
       ELSE /\ sess' = [sess EXCEPT !.offset = rec.finish, !.retrying = FALSE]
            /\ pc' = "fetching"
            /\ UNCHANGED exitCause
    /\ UNCHANGED <<mail, objType, bad, clock, metaFile, files, memcache, http_req,
                   get_count, conn, closes, errCloses, op, cont, now, rec, result,
                   opsLeft, faultsLeft, firstAnswer>>

(* The isolation loop as one step.  RecAfter(l, upto): the locals once    *)
(* the requests for the offsets rec.i .. upto - 1 are answered 200 or 400  *)
RecAfter(l, upto) ==
    LET good == {i \in rec.i..(upto - 1) : SingleAt(l, i) \notin bad}
    IN [i |-> upto, finish |-> rec.finish,
        failed |-> rec.failed /\ good = {},
        skipped |-> rec.skipped + (upto - rec.i) - Cardinality(good),
        stored |-> rec.stored + Cardinality(good)]

(* the offsets at which a fault may interrupt the loop taken as one step: *)
(* its first, second and last request                                      *)
FaultOffsets ==
    IF faultsLeft > 0
    THEN {rec.i, rec.i + 1, rec.finish - 1} \cap rec.i..(rec.finish - 1)
    ELSE {}

(* the isolation loop with the next range URL that of the same page *)
RecoverLoopSamePage ==
    /\ pc = "recovering"
    /\ \E j \in FaultOffsets \cup {rec.finish} :
          LET r == RecAfter(ServerList(sess.filter), j)
          IN /\ IF r.stored > rec.stored
                THEN CachePutObject(0, ResponseJson(0))
                ELSE UNCHANGED <<files, memcache>>
             /\ rec' = r
             /\ IF j < rec.finish
                THEN /\ get_count' = get_count + (j - rec.i) + 1
                     /\ RateLimitSteps((j - rec.i) + 1)
                     /\ conn' = ConnSteps(conn, http_req, (j - rec.i) + 1)
                     /\ Exit("error status")
                     /\ faultsLeft' = faultsLeft - 1
                     /\ UNCHANGED sess
                ELSE /\ get_count' = get_count + (j - rec.i)
                     /\ RateLimitSteps(j - rec.i)
                     /\ conn' = ConnSteps(conn, http_req, j - rec.i)
                     /\ UNCHANGED faultsLeft
                     /\ IF r.failed
                        THEN /\ Exit("no request in range")
                             /\ UNCHANGED sess
                        ELSE /\ sess' = [sess EXCEPT !.retrying = FALSE]
                             /\ pc' = "fetching"
                             /\ UNCHANGED exitCause
    /\ UNCHANGED <<mail, objType, bad, clock, metaFile, errCloses, op, cont, now,
                   result, opsLeft, firstAnswer>>

(* the whole for loop of the isolation and what follows it; a fault       *)
(* (status 500) at offset j ends the process there                         *)
RecoverLoop ==
    /\ pc = "recovering"
    /\ \E j \in FaultOffsets \cup {rec.finish} :
          LET r == RecAfter(ServerList(sess.filter), j)
          IN /\ IF r.stored > rec.stored
                THEN CachePutObject(0, ResponseJson(0))
                ELSE UNCHANGED <<files, memcache>>
             /\ rec' = r
             /\ IF j < rec.finish
                THEN /\ get_count' = get_count + (j - rec.i) + 1
                     /\ RateLimitSteps((j - rec.i) + 1)
                     /\ conn' = ConnSteps(conn, http_req, (j - rec.i) + 1)
                     /\ Exit("error status")
                     /\ faultsLeft' = faultsLeft - 1
                     /\ UNCHANGED sess
                ELSE /\ get_count' = get_count + (j - rec.i)
                     /\ RateLimitSteps(j - rec.i)
                     /\ conn' = ConnSteps(conn, http_req, j - rec.i)
                     /\ UNCHANGED faultsLeft
                     /\ IF r.failed
                        THEN /\ Exit("no request in range")
                             /\ UNCHANGED sess
                        ELSE /\ sess' = [sess EXCEPT !.offset = rec.finish,
                                                     !.retrying = FALSE]
                             /\ pc' = "fetching"
                             /\ UNCHANGED exitCause
    /\ UNCHANGED <<mail, objType, bad, clock, metaFile, errCloses, op, cont, now,
                   result, opsLeft, firstAnswer>>

-----------------------------------------------------------------------------
(* What follows _cache_put_objects in its three callers *)

(* the switch to a full cache that keeps the recorded queries *)
PromoteFinishKeepQueries ==
    /\ pc = "fetch_done"
    /\ sess.purpose = "promote"
    /\ metaFile' = [metaFile EXCEPT !.partial = FALSE, !.updated = now]
    /\ CheckStale(metaFile', now)
    /\ UNCHANGED <<mail, objType, bad, clock, files, memcache, http_req, get_count, conn,
                   closes, errCloses, op, cont, now, rec, result, opsLeft,
                   faultsLeft, firstAnswer>>

(* _cache_update after the full fetch: the type becomes a full cache *)
PromoteFinish ==
    /\ pc = "fetch_done"
    /\ sess.purpose = "promote"
    /\ metaFile' = [metaFile EXCEPT !.partial = FALSE, !.queries = <<>>,
                                    !.updated = now]
    /\ CheckStale(metaFile', now)
    /\ UNCHANGED <<mail, objType, bad, clock, files, memcache, http_req, get_count, conn,
                   closes, errCloses, op, cont, now, rec, result, opsLeft,
                   faultsLeft, firstAnswer>>

(* _cache_update after the fetch of the objects modified since updated *)
RefreshFinish ==
    /\ pc = "fetch_done"
    /\ sess.purpose = "refresh"
    /\ metaFile' = [metaFile EXCEPT !.updated = now]
    /\ sess' = NoSess
    /\ pc' = cont
    /\ UNCHANGED <<mail, objType, bad, clock, files, memcache, http_req, get_count, conn,
                   closes, errCloses, op, cont, now, rec, result, exitCause,
                   opsLeft, faultsLeft, firstAnswer>>

(* _retrieve_multi after the fetch of the query: the query is recorded *)
QueryFinish ==
    /\ pc = "fetch_done"
    /\ sess.purpose = "query"
    /\ metaFile' = CacheRecordQuery(metaFile, op.uri)
    /\ sess' = NoSess
    /\ pc' = "answer"
    /\ UNCHANGED <<mail, objType, bad, clock, files, memcache, http_req, get_count, conn,
                   closes, errCloses, op, cont, now, rec, result, exitCause,
                   opsLeft, faultsLeft, firstAnswer>>

(* _retrieve_multi: the answer is read from disk by _cache_get_objects,   *)
(* which looks up the hints of the type and loads every file of the type   *)
(* into the memcache                                                       *)
Answer ==
    /\ pc = "answer"
    /\ IF ~Registered(objType)
       THEN /\ Exit("KeyError")
            /\ UNCHANGED <<memcache, firstAnswer, result, op, cont, now, sess,
                           rec>>
       ELSE /\ memcache' = MemcacheAfterGet(DOMAIN files \ {0})
            /\ firstAnswer' =
                  IF op.branch = "network" /\ op.uri \notin DOMAIN firstAnswer
                  THEN [q \in DOMAIN firstAnswer \cup {op.uri} |->
                           IF q = op.uri
                           THEN Range(CacheGetObjects(op.uri.params))
                           ELSE firstAnswer[q]]
                  ELSE firstAnswer
            /\ Return(CacheGetObjects(op.uri.params))
            /\ UNCHANGED exitCause
    /\ UNCHANGED <<mail, objType, bad, clock, metaFile, files, http_req, get_count, conn,
                   closes, errCloses, opsLeft, faultsLeft>>

(* _retrieve_json, status 200: the object is stored and its URI recorded *)
Item200(k) ==
    /\ CachePutObject(k, ObjectJson(k))
    /\ metaFile' = CacheRecordQuery(MetaAfterPut(metaFile), op.uri)
    /\ Return(ObjectJson(k))
    /\ UNCHANGED <<exitCause, faultsLeft>>

(* _retrieve_json that treats status 404 as any other error status *)
Item404Fatal ==
    /\ Exit("error status")
    /\ UNCHANGED <<files, memcache, metaFile, op, cont, now, sess, rec, result,
                   faultsLeft>>

(* _retrieve_json, status 404: the object does not exist *)
Item404 ==
    /\ Return(None)
    /\ UNCHANGED <<files, memcache, metaFile, exitCause, faultsLeft>>

(* _retrieve_json, any other status *)
ItemOther(status) ==
    /\ Exit("error status")
    /\ faultsLeft' = IF status = 500 THEN faultsLeft - 1 ELSE faultsLeft
    /\ UNCHANGED <<files, memcache, metaFile, op, cont, now, sess, rec, result>>

(* _retrieve_json *)
RetrieveJson ==
    /\ pc = "retrieve_json"
    /\ LET k == op.uri.id
       IN IF ~CacheHasObject(k)
          THEN /\ RateLimitStep
               /\ get_count' = get_count + 1
               /\ conn' = ConnSteps(conn, http_req, 1)
               /\ \E status \in ItemStatuses(k) :
                     CASE status = 200 -> Item200(k)
                       [] status = 404 -> Item404
                       [] OTHER -> ItemOther(status)
          ELSE /\ memcache' = MemcacheAfterGet({k})
               /\ Return(CacheGetObject(k))
               /\ UNCHANGED <<files, metaFile, http_req, get_count, conn, closes,
                              exitCause, faultsLeft>>
    /\ UNCHANGED <<mail, objType, bad, clock, errCloses, opsLeft, firstAnswer>>

-----------------------------------------------------------------------------
(* The callers and the environment *)

GetOne == \E k \in GetIds : Retrieve(k)

QueryMany == \E uri \in Queries : RetrieveMulti(uri)

(* an hour passes between two operations *)
Tick ==
    /\ pc = "idle"
    /\ opsLeft > 0
    /\ metaFile.exists
    /\ clock < MaxClock
    /\ clock' = clock + 1
    /\ UNCHANGED <<mail, objType, bad, metaFile, files, memcache, http_req,
                   get_count, conn, closes, errCloses, pc, op, cont, now, sess, rec,
                   result, exitCause, opsLeft, faultsLeft, firstAnswer>>

(* a new process on the same cache directory: DataTracker.__init__ *)
Restart ==
    /\ pc = "exited"
    /\ memcache' = EmptyStore
    /\ http_req' = 0
    /\ get_count' = 0
    /\ conn' = NoConn
    /\ closes' = 0
    /\ errCloses' = 0
    /\ exitCause' = "none"
    /\ Return(<<>>)
    /\ UNCHANGED <<mail, objType, bad, clock, metaFile, files, opsLeft, faultsLeft,
                   firstAnswer>>

(* the metadata of a partial cache that has recorded n queries *)
PriorMeta(n) ==
    CacheMetadata(PriorTime, PriorTime, TRUE, [k \in 1..n |-> PriorQuery(k)])

InitWith(types, bads, dirs, ops, faults) ==
    /\ objType \in types
    /\ bad \in bads
    /\ clock = InitClock
    /\ metaFile \in dirs
    /\ files = EmptyStore
    /\ memcache = EmptyStore
    /\ http_req = 0
    /\ get_count = 0
    /\ conn = NoConn
    /\ closes = 0
    /\ errCloses = 0
    /\ pc = "idle"
    /\ op = NoOp
    /\ cont = "none"
    /\ now = NoInt
    /\ sess = NoSess
    /\ rec = NoRec
    /\ result = <<>>
    /\ exitCause = "none"
    /\ opsLeft = ops
    /\ faultsLeft = faults
    /\ firstAnswer = EmptyStore
    /\ mail = NoMail

Init ==
    InitWith(Types, {{}, {BadId}},
             {NoMeta, PriorMeta(PriorQueries), PriorMeta(PriorQueries + 1)},
             MaxOps, MaxFaults)

Next ==
    \/ GetOne
    \/ QueryMany
    \/ CacheUpdate
    \/ PageGet
    \/ RecoverLoop
    \/ PromoteFinish
    \/ RefreshFinish
    \/ QueryFinish
    \/ Answer
    \/ RetrieveJson
    \/ Tick
    \/ Restart

Spec == Init /\ [][Next]_vars

(* the same program with every request of the isolation loop a step *)
NextSteps ==
    \/ GetOne
    \/ QueryMany
    \/ CacheUpdate
    \/ PageGet
    \/ RecoverGet
    \/ RecoverEnd
    \/ PromoteFinish
    \/ RefreshFinish
    \/ QueryFinish
    \/ Answer
    \/ RetrieveJson
    \/ Tick
    \/ Restart

SpecSteps == Init /\ [][NextSteps]_vars

(* the program used on a type that has no entry in self._cache_hints; the *)
(* delta fetch of _cache_update cannot be reached for such a type          *)
InitUnregistered ==
    InitWith({TypeSubmissionCheck}, {{}, {BadId}},
             {NoMeta, PriorMeta(PriorQueries), PriorMeta(PriorQueries + 1)},
             MaxOps, MaxFaults)

NextUnregistered ==
    \/ GetOne
    \/ QueryMany
    \/ CacheUpdate
    \/ PageGet
    \/ RecoverLoop
    \/ PromoteFinish
    \/ QueryFinish
    \/ Answer
    \/ RetrieveJson
    \/ Tick
    \/ Restart

SpecUnregistered == InitUnregistered /\ [][NextUnregistered]_vars

(* _cache_save_metadata opens _cache_info.json with mode "w", which       *)
(* empties the file, and json.dump then writes the record piece by piece:  *)
(* a process that is killed in between leaves the file empty or cut short  *)
KillInSave ==
    /\ pc = "fetch_done"
    /\ \/ sess.purpose \in {"promote", "refresh"}
       \/ (sess.purpose = "query" /\ CacheRecordQuery(metaFile, op.uri) # metaFile)
    /\ metaFile' = TornMeta
    /\ Exit("killed")
    /\ UNCHANGED <<mail, objType, bad, clock, files, memcache, http_req, get_count, conn,
                   closes, errCloses, op, cont, now, sess, rec, result,
                   opsLeft, faultsLeft, firstAnswer>>

(* the program on a machine where the process can be killed while it      *)
(* saves metadata; the next process reads what the killed one left         *)
NextCrash ==
    \/ GetOne
    \/ QueryMany
    \/ CacheUpdate
    \/ PageGet
    \/ RecoverLoop
    \/ PromoteFinish
    \/ RefreshFinish
    \/ QueryFinish
    \/ KillInSave
    \/ Answer
    \/ RetrieveJson
    \/ Tick
    \/ Restart

SpecCrash == Init /\ [][NextCrash]_vars

(* _cache_obj_matches followed alone.  The parameters a query is made of:  *)
(* a trim field, a deref field, each relational suffix, and plain fields   *)
EvalParams ==
    IF objType = TypeDocEvent
    THEN {Param("by", "", 1), Param("by", "", 2),
          Param("doc", "", DocIdBase + 1), Param("doc", "", 1),
          Param("doc", "", DocIdBase + EvalObjs + 1),
          Param("desc", "__contains", 1),
          Param("time", "__gte", InitClock), Param("time", "__lt", InitClock),
          Param("id", "__gt", 2), Param("id", "__lte", 4),
          Param("id", "", 2)}
    ELSE {Param("reviewer", "", 1), Param("reviewer", "", 2),
          Param("completed_on", "__gt", 0),
          Param("completed_on", "__lt", EvalObjs),
          Param("id", "", 1), Param("id", "__gte", 2)}

(* the queries: one or two parameters *)
EvalQueries ==
    {<<x>> : x \in EvalParams} \cup {<<x, y>> : x \in EvalParams, y \in EvalParams}

(* the objects 1..EvalObjs of the type are in the cache, and the type of  *)
(* the objects they refer to has its metadata                              *)
InitEval ==
    /\ objType \in EvalTypes
    /\ bad = {}
    /\ clock = InitClock
    /\ metaFile = CacheMetadata(InitClock, InitClock, FALSE, <<>>)
    /\ files \in {[k \in (1..EvalObjs) \cup {RefMetaKey} |->
                      IF k = RefMetaKey THEN RefMeta ELSE ObjectJson(k)],
                  StorePutRefs([k \in (1..EvalObjs) \cup {RefMetaKey} |->
                                   IF k = RefMetaKey THEN RefMeta
                                   ELSE ObjectJson(k)],
                               {<<"/api/v1/doc/document/", 1>>})}
    /\ memcache = EmptyStore
    /\ http_req = 0
    /\ get_count = 0
    /\ conn = NoConn
    /\ closes = 0
    /\ errCloses = 0
    /\ pc = "idle"
    /\ op = NoOp
    /\ cont = "none"
    /\ now = NoInt
    /\ sess = NoSess
    /\ rec = NoRec
    /\ result = <<>>
    /\ exitCause = "none"
    /\ opsLeft = MaxOps
    /\ faultsLeft = 0
    /\ firstAnswer = EmptyStore
    /\ mail = NoMail

(* _cache_obj_matches(obj, query_uri) for one cached object and one query *)
Match ==
    /\ pc = "idle"
    /\ opsLeft > 0
    /\ opsLeft' = opsLeft - 1
    /\ \E k \in 1..EvalObjs, params \in EvalQueries :
          LET v == AllVisits(CacheGetObject(k), params, 1)
              gets == IF RefRaises(v) THEN 0
                      ELSE Cardinality(FetchingVisits(v))
              found == IF RefRaises(v) THEN {}
                       ELSE {v[n] : n \in {m \in 1..Len(v) :
                                               DerefJson(v[m]) # None}}
          IN /\ op' = StartOp("match", URI(k, params), "none")
             /\ RateLimitSteps(gets)
             /\ get_count' = get_count + gets
             /\ conn' = ConnSteps(conn, http_req, gets)
             /\ files' = StorePutRefs(files, found)
             /\ memcache' = StorePutRefs(memcache, found)
             /\ IF RefRaises(v)
                THEN /\ Exit("FileNotFoundError")
                     /\ UNCHANGED result
                ELSE IF CacheObjRaises(CacheGetObject(k), params)
                THEN /\ Exit("TypeError")
                     /\ UNCHANGED result
                ELSE /\ pc' = "matched"
                     /\ result' = <<CacheObjMatches(CacheGetObject(k), params)>>
                     /\ UNCHANGED exitCause
    /\ UNCHANGED <<mail, objType, bad, clock, metaFile, errCloses, cont, now, sess,
                   rec, faultsLeft, firstAnswer>>

(* the caller takes the result *)
MatchReturn ==
    /\ pc = "matched"
    /\ Return(result)
    /\ UNCHANGED <<mail, objType, bad, clock, metaFile, files, memcache, http_req,
                   get_count, conn, closes, errCloses, exitCause, opsLeft,
                   faultsLeft, firstAnswer>>

NextEval ==
    \/ Match
    \/ MatchReturn
    \/ Restart

SpecEval == InitEval /\ [][NextEval]_vars

(* the objects 1..EvalObjs of the type are in the cache of a directory   *)
(* that was empty before they were fetched: the type of the objects they   *)
(* refer to has no directory                                               *)
InitDeref ==
    /\ objType \in EvalTypes
    /\ bad = {}
    /\ clock = InitClock
    /\ metaFile = CacheMetadata(InitClock, InitClock, TRUE, <<>>)
    /\ files = [k \in 1..EvalObjs |-> ObjectJson(k)]
    /\ memcache = EmptyStore
    /\ http_req = 0
    /\ get_count = 0
    /\ conn = NoConn
    /\ closes = 0
    /\ errCloses = 0
    /\ pc = "idle"
    /\ op = NoOp
    /\ cont = "none"
    /\ now = NoInt
    /\ sess = NoSess
    /\ rec = NoRec
    /\ result = <<>>
    /\ exitCause = "none"
    /\ opsLeft = MaxOps
    /\ faultsLeft = 0
    /\ firstAnswer = EmptyStore
    /\ mail = NoMail

SpecDeref == InitDeref /\ [][NextEval]_vars

-----------------------------------------------------------------------------
(* The request URLs that _cache_put_objects builds after a status 400.    *)
(* A query string is a sequence of <<field, suffix, text>>, the text a     *)
(* sequence of character codes, as the server reads it once the percent    *)
(* encoding is undone.  A time is written here with the digits of the      *)
(* clock value.                                                            *)

PyInt(n) == [t |-> "int", n |-> n, s |-> <<>>]

(* a list that holds the one string s *)
PyList(s) == [t |-> "list", n |-> 0, s |-> s]

(* str(v), which urlencode applies to a value that is not a string: for a  *)
(* list it is the repr of the list, ['...']                                *)
PyStr(v) ==
    IF v.t = "int" THEN Digits(v.n)
    ELSE <<CharOpen, CharQuote>> \o v.s \o <<CharQuote, CharClose>>

(* the query of req_url, which is the `next` of the page before it *)
PageQuery(filter, offset) ==
    <<Param("limit", "", Digits(PageLimit)), Param("offset", "", Digits(offset))>>
    \o [n \in 1..Len(filter) |->
           Param(filter[n][1], filter[n][2], Digits(filter[n][3]))]

(* urllib.parse.parse_qs: every value is a list of the strings given for  *)
(* the name                                                                *)
ParseQs(query) ==
    [n \in 1..Len(query) |-> Param(query[n][1], query[n][2], PyList(query[n][3]))]

(* obj_uri.params[k] = v for a key that parse_qs has returned *)
SetParam(params, field, v) ==
    [n \in 1..Len(params) |->
        IF params[n][1] = field /\ params[n][2] = ""
        THEN Param(field, "", v) ELSE params[n]]

(* urllib.parse.urlencode(params), without doseq *)
UrlEncode(params) ==
    [n \in 1..Len(params) |->
        Param(params[n][1], params[n][2], PyStr(params[n][3]))]

(* str(obj_uri) of the limit=1 request for offset i *)
SingleQuery(query, i) ==
    UrlEncode(SetParam(SetParam(ParseQs(query), "offset", PyInt(i)),
                       "limit", PyInt(1)))

(* the next range URL *)
NextQuery(query, finish) ==
    UrlEncode(SetParam(SetParam(ParseQs(query), "offset", PyInt(finish)),
                       "limit", PyInt(PageLimit)))

(* the filters of the page requests that are answered 400 *)
RebuildFilters ==
    {<<>>}
    \cup {<<Param("group", "", g)>> : g \in 1..3}
    \cup {<<Param("time", "__gte", a), Param("time", "__lt", b)>> :
             a \in {PriorTime, InitClock}, b \in {MaxClock}}
    \cup {<<Param("time", "__gte", Since), Param("time", "__lt", Until),
            Param("group", "", g)>> : g \in 1..3}

InitRebuild == InitWith(Types, {{GoodId}}, {NoMeta}, MaxOps, 0)

(* the second page request of a fetch is answered 400 *)
Isolate ==
    /\ pc = "idle"
    /\ opsLeft > 0
    /\ opsLeft' = opsLeft - 1
    /\ \E filter \in RebuildFilters, total \in {PageLimit + RecentEvery, NObj} :
          /\ op' = StartOp("queryMany", URI(0, filter), "network")
          /\ sess' = [StartSess(IF filter = <<>> THEN "promote" ELSE "query",
                                filter)
                        EXCEPT !.offset = PageLimit, !.total = total,
                               !.status = 400]
          /\ rec' = [i |-> PageLimit,
                     finish |-> IF PageLimit < total
                                THEN PageLimit + RecoverySpan
                                ELSE total,
                     failed |-> TRUE, skipped |-> 0, stored |-> 0]
    /\ result' = <<>>
    /\ pc' = "rebuilding"
    /\ UNCHANGED <<mail, objType, bad, clock, metaFile, files, memcache, http_req,
                   get_count, conn, closes, errCloses, cont, now, exitCause,
                   faultsLeft, firstAnswer>>

(* the URL of one limit=1 request of the isolation loop; result holds the  *)
(* query of the URL built last                                             *)
RebuildSingle ==
    /\ pc = "rebuilding"
    /\ rec.i < rec.finish
    /\ result' = <<SingleQuery(PageQuery(sess.filter, sess.offset), rec.i)>>
    /\ rec' = [rec EXCEPT !.i = rec.i + 1]
    /\ UNCHANGED <<mail, objType, bad, clock, metaFile, files, memcache, http_req,
                   get_count, conn, closes, errCloses, pc, op, cont, now, sess,
                   exitCause, opsLeft, faultsLeft, firstAnswer>>

(* the next range URL, built after the loop *)
RebuildNext ==
    /\ pc = "rebuilding"
    /\ rec.i >= rec.finish
    /\ result' = <<NextQuery(PageQuery(sess.filter, sess.offset), rec.finish)>>
    /\ pc' = "rebuilt"
    /\ UNCHANGED <<mail, objType, bad, clock, metaFile, files, memcache, http_req,
                   get_count, conn, closes, errCloses, op, cont, now, sess, rec,
                   exitCause, opsLeft, faultsLeft, firstAnswer>>

RebuildReturn ==
    /\ pc = "rebuilt"
    /\ Return(<<>>)
    /\ UNCHANGED <<mail, objType, bad, clock, metaFile, files, memcache, http_req,
                   get_count, conn, closes, errCloses, exitCause, opsLeft,
                   faultsLeft, firstAnswer>>

NextRebuild ==
    \/ Isolate
    \/ RebuildSingle
    \/ RebuildNext
    \/ RebuildReturn

SpecRebuild == InitRebuild /\ [][NextRebuild]_vars

-----------------------------------------------------------------------------
(* The cache of a mailing list archive (mailarchive.py).  mail.server: the *)
(* message ids of the IMAP folder; msgs: the ids with a <id>.msg file;      *)
(* downloads: the ids with a <id>.msg.download file, cut: those of them     *)
(* whose file does not hold the whole message; aa_cache: aa-cache.json      *)
(* exists; msg_list, msg_fetch, new_msgs, msg_id: the locals of update();   *)
(* todo: the items of imap.fetch() the loop has not visited yet.            *)

MsgIds == 1..MaxMsg

(* update() calls and kills still to come *)
MailUpdates == 2
MailKills == 1

(* MailingList.__init__ on a cache folder *)
MailingListNew(server, msgs, downloads, cut, updates, kills) ==
    [pc |-> "idle", server |-> server, msgs |-> msgs, downloads |-> downloads,
     cut |-> cut, num_messages |-> Cardinality(msgs), aa_cache |-> TRUE,
     msg_list |-> {}, msg_fetch |-> {}, todo |-> {}, new_msgs |-> {},
     msg_id |-> 0, updates |-> updates, kills |-> kills]

InitMail ==
    /\ objType \in Types
    /\ bad = {}
    /\ clock = InitClock
    /\ metaFile = NoMeta
    /\ files = EmptyStore
    /\ memcache = EmptyStore
    /\ http_req = 0
    /\ get_count = 0
    /\ conn = NoConn
    /\ closes = 0
    /\ errCloses = 0
    /\ pc = "idle"
    /\ op = NoOp
    /\ cont = "none"
    /\ now = NoInt
    /\ sess = NoSess
    /\ rec = NoRec
    /\ result = <<>>
    /\ exitCause = "none"
    /\ opsLeft = 0
    /\ faultsLeft = 0
    /\ firstAnswer = EmptyStore
    /\ \E server \in SUBSET MsgIds, msgs \in SUBSET MsgIds :
          mail = MailingListNew(server, msgs, {}, {}, MailUpdates, MailKills)

(* a message is added to the IMAP folder between two calls *)
Arrive ==
    /\ mail.pc \in {"idle", "returned"}
    /\ mail.updates > 0
    /\ \E id \in MsgIds \ mail.server :
          mail' = [mail EXCEPT !.server = mail.server \cup {id}]
    /\ UNCHANGED dtVars

(* an update() that asks the server for every message of the folder *)
UpdateFetchAll ==
    /\ mail.pc \in {"idle", "returned"}
    /\ mail.updates > 0
    /\ LET msg_fetch == mail.server
       IN mail' = [mail EXCEPT
                     !.updates = mail.updates - 1,
                     !.msg_list = mail.server,
                     !.msg_fetch = msg_fetch,
                     !.todo = msg_fetch,
                     !.new_msgs = {},
                     !.aa_cache = IF msg_fetch # {} THEN FALSE ELSE mail.aa_cache,
                     !.pc = IF msg_fetch # {} THEN "fetching" ELSE "returned"]
    /\ UNCHANGED dtVars

(* update() up to imap.fetch(msg_fetch): aa-cache.json is unlinked when    *)
(* there is a message to fetch; with none, update() returns                *)
Update ==
    /\ mail.pc \in {"idle", "returned"}
    /\ mail.updates > 0
    /\ LET msg_fetch == mail.server \ mail.msgs
       IN mail' = [mail EXCEPT
                     !.updates = mail.updates - 1,
                     !.msg_list = mail.server,
                     !.msg_fetch = msg_fetch,
                     !.todo = msg_fetch,
                     !.new_msgs = {},
                     !.aa_cache = IF msg_fetch # {} THEN FALSE ELSE mail.aa_cache,
                     !.pc = IF msg_fetch # {} THEN "fetching" ELSE "returned"]
    /\ UNCHANGED dtVars

(* the loop over imap.fetch(...).items(): open(fetch_file, "wb") for the   *)
(* next item, in the order of the dict, when it has no <id>.msg             *)
UpdateOpen ==
    /\ mail.pc = "fetching"
    /\ \E id \in mail.todo :
          IF id \notin mail.msgs
          THEN mail' = [mail EXCEPT !.msg_id = id,
                                    !.todo = mail.todo \ {id},
                                    !.downloads = mail.downloads \cup {id},
                                    !.cut = mail.cut \cup {id},
                                    !.pc = "opened"]
          ELSE mail' = [mail EXCEPT !.msg_id = id, !.todo = mail.todo \ {id}]
    /\ UNCHANGED dtVars

(* outf.write(msg[b"RFC822"]) and the end of the with block *)
UpdateWrite ==
    /\ mail.pc = "opened"
    /\ mail' = [mail EXCEPT !.cut = mail.cut \ {mail.msg_id}, !.pc = "written"]
    /\ UNCHANGED dtVars

(* fetch_file.rename(cache_file) and the rest of the loop body *)
UpdateRename ==
    /\ mail.pc = "written"
    /\ mail' = [mail EXCEPT !.msgs = mail.msgs \cup {mail.msg_id},
                            !.downloads = mail.downloads \ {mail.msg_id},
                            !.num_messages = mail.num_messages + 1,
                            !.new_msgs = mail.new_msgs \cup {mail.msg_id},
                            !.pc = "fetching"]
    /\ UNCHANGED dtVars

(* after the loop: aa-cache.json is written and update() returns new_msgs  *)
UpdateSave ==
    /\ mail.pc = "fetching"
    /\ mail.todo = {}
    /\ mail' = [mail EXCEPT !.aa_cache = TRUE, !.pc = "returned"]
    /\ UNCHANGED dtVars

(* the process is killed during update() *)
Kill ==
    /\ mail.pc \in {"fetching", "opened", "written"}
    /\ mail.kills > 0
    /\ mail' = [mail EXCEPT !.kills = mail.kills - 1, !.pc = "dead"]
    /\ UNCHANGED dtVars

(* a new process: MailingList.__init__ counts the *.msg files and, with no *)
(* aa-cache.json, writes it                                                *)
MailingListInit ==
    /\ mail.pc = "dead"
    /\ mail' = MailingListNew(mail.server, mail.msgs, mail.downloads, mail.cut,
                              mail.updates, mail.kills)
    /\ UNCHANGED dtVars

NextMail ==
    \/ Arrive
    \/ Update
    \/ UpdateOpen
    \/ UpdateWrite
    \/ UpdateRename
    \/ UpdateSave
    \/ Kill
    \/ MailingListInit

SpecMail == InitMail /\ [][NextMail]_vars

(* the ids of the objects whose order is followed through the sort: one, *)
(* two and three digits                                                    *)
SortIds == {2, 9, 10, 11, 100}

SortQueries == {<<>>, <<Param("order", "", 1)>>, <<Param("order", "", 2)>>}

(* any of the objects of SortIds are in the cache *)
InitSort ==
    /\ objType \in SortTypes
    /\ bad = {}
    /\ clock = InitClock
    /\ metaFile = CacheMetadata(InitClock, InitClock, FALSE, <<>>)
    /\ files \in {[k \in D |-> ObjectJson(k)] : D \in SUBSET SortIds}
    /\ memcache = EmptyStore
    /\ http_req = 0
    /\ get_count = 0
    /\ conn = NoConn
    /\ closes = 0
    /\ errCloses = 0
    /\ pc = "idle"
    /\ op = NoOp
    /\ cont = "none"
    /\ now = NoInt
    /\ sess = NoSess
    /\ rec = NoRec
    /\ result = <<>>
    /\ exitCause = "none"
    /\ opsLeft = MaxOps
    /\ faultsLeft = 0
    /\ firstAnswer = EmptyStore
    /\ mail = NoMail

(* the orders in which glob("*.json") may list the files of the type *)
Globs ==
    LET n == Cardinality(DOMAIN files)
    IN {g \in [1..n -> DOMAIN files] : \A i, j \in 1..n : g[i] = g[j] => i = j}

(* _cache_get_objects(obj_uri) on the files of the type *)
GetObjects ==
    /\ pc = "idle"
    /\ opsLeft > 0
    /\ opsLeft' = opsLeft - 1
    /\ \E params \in SortQueries, glob \in Globs :
          LET Hit(k) == CacheObjMatches(CacheGetObject(k), params)
          IN /\ op' = StartOp("queryMany", URI(0, params), "disk")
             /\ result' = SortObjs(SelectSeq(glob, Hit))
    /\ memcache' = MemcacheAfterGet(DOMAIN files)
    /\ pc' = "matched"
    /\ UNCHANGED <<mail, objType, bad, clock, metaFile, files, http_req, get_count,
                   conn, closes, errCloses, cont, now, sess, rec, exitCause,
                   faultsLeft, firstAnswer>>

NextSort ==
    \/ GetObjects
    \/ MatchReturn

SpecSort == InitSort /\ [][NextSort]_vars

(* the objects of group 2: a collection whose total_count is not a       *)
(* multiple of the page size                                               *)
QGroupOther ==
    IF objType = TypeGroupEvent THEN GroupEvents(Since, Until, 2) ELSE GroupUrls(2)

QueryManyOther == RetrieveMulti(QGroupOther)

(* one query for the objects of group 2 on an empty cache directory, a    *)
(* record of the last page of the collection corrupt, every request of the *)
(* isolation loop a step                                                   *)
InitLastPage ==
    InitWith(Types, {{LateBadId}}, {NoMeta}, 1, 0)

NextLastPage ==
    \/ QueryManyOther
    \/ PageGet
    \/ RecoverGet
    \/ RecoverEnd
    \/ QueryFinish
    \/ Answer

SpecLastPage == InitLastPage /\ [][NextLastPage]_vars

(* one operation of a process that the server may answer with a fault at *)
(* every request; _cache_put_objects is sequential code, so each of its    *)
(* requests is made once the one before it is answered                     *)
InitProgress ==
    InitWith(Types, {{}, {BadId}}, {NoMeta, PriorMeta(PriorQueries + 1)},
             ProgressOps, ProgressFaults)

NextProgress ==
    \/ GetOne
    \/ QueryMany
    \/ CacheUpdate
    \/ PageGet
    \/ RecoverLoop
    \/ PromoteFinish
    \/ QueryFinish
    \/ Answer
    \/ RetrieveJson

SpecProgress ==
    /\ InitProgress
    /\ [][NextProgress]_vars
    /\ WF_vars(PageGet)
    /\ WF_vars(RecoverLoop)

(* a process that has made PriorGets - 1 or PriorGets requests for        *)
(* objects of other types, each after a _rate_limit, before its first      *)
(* operation on this type                                                  *)
InitConn ==
    /\ objType \in Types
    /\ bad \in {{}, {BadId}}
    /\ clock = InitClock
    /\ metaFile \in {NoMeta, PriorMeta(PriorQueries + 1)}
    /\ files = EmptyStore
    /\ memcache = EmptyStore
    /\ http_req \in {PriorGets - 1, PriorGets}
    /\ get_count = http_req
    /\ conn = ConnSteps(NoConn, 0, http_req)
    /\ closes = http_req \div RateLimit
    /\ errCloses = 0
    /\ pc = "idle"
    /\ op = NoOp
    /\ cont = "none"
    /\ now = NoInt
    /\ sess = NoSess
    /\ rec = NoRec
    /\ result = <<>>
    /\ exitCause = "none"
    /\ opsLeft = ConnOps
    /\ faultsLeft = MaxFaults
    /\ firstAnswer = EmptyStore
    /\ mail = NoMail

SpecConn == InitConn /\ [][NextSteps]_vars

(* persistent server faults, no record of the remote database corrupt *)
InitBackoff ==
    InitWith(Types, {{}},
             {NoMeta, PriorMeta(PriorQueries), PriorMeta(PriorQueries + 1)},
             BackoffOps, BackoffFaults)

NextBackoff ==
    \/ GetOne
    \/ QueryMany
    \/ CacheUpdate
    \/ PageGet
    \/ PromoteFinish
    \/ RefreshFinish
    \/ QueryFinish
    \/ Answer
    \/ RetrieveJson
    \/ Tick
    \/ Restart

SpecBackoff == InitBackoff /\ [][NextBackoff]_vars

-----------------------------------------------------------------------------
(* Properties *)

Full == metaFile.exists /\ ~metaFile.partial

(* the time slept so far in the retry loop of the page being requested *)
Slept == IF sess.retrying THEN sess.slept ELSE 0

(* C1 - query-answer equivalence: a queryMany answered from disk, its     *)
(* query already recorded, returns the same set of objects as the first   *)
(* call of that query, which was answered after a network fetch.           *)
QueryAnswerEquivalence ==
    (pc = "answer" /\ op.branch = "disk" /\ op.uri \in DOMAIN firstAnswer)
        => Range(CacheGetObjects(op.uri.params)) = firstAnswer[op.uri]

(* C2 - promotion is monotonic: once the persisted metadata of the type   *)
(* has partial = false, no step of any operation sets it back to true.     *)
PromotionMonotonic ==
    [][Full => Full']_vars

(* C2 - an operation that began an hour or more after the promotion has   *)
(* run its _cache_update and the type is still a full cache.               *)
PromotionMonotonicWitness ==
    /\ Full
    /\ pc \in {"answer", "retrieve_json"}
    /\ now > metaFile.updated

(* C3 as stated - once partial is false, no step of a queryMany issues a  *)
(* GET.                                                                    *)
NoGetOnceFull ==
    [][(op.kind = "queryMany" /\ Full) => get_count' = get_count]_vars

(* C3 amended - once partial is false a queryMany issues no GET for the   *)
(* query itself: it takes the disk branch, and a step of it issues a GET   *)
(* only in the fetch of the objects modified since `updated`, which runs   *)
(* only for a timed type whose metadata is more than an hour old.          *)
OnlyRefreshGetsOnceFull ==
    [][(op.kind = "queryMany" /\ Full)
          => /\ op.branch = "disk"
             /\ get_count' # get_count
                  => /\ hints.timed
                     /\ sess.purpose = "refresh"
                     /\ now - metaFile.updated > StaleAfter]_vars

(* C3 - a queryMany on a full cache has issued a GET in its refresh.      *)
OnlyRefreshGetsOnceFullWitness ==
    /\ op.kind = "queryMany"
    /\ Full
    /\ sess.purpose = "refresh"
    /\ get_count > op.gets

(* C4 - partial is set to false only when the unfiltered fetch of the     *)
(* promotion has ended with a page answered 200 whose meta.next is null,   *)
(* and a process that exits inside the fetch of a promotion leaves         *)
(* partial = true on disk.                                                 *)
PromotionOnlyAfterSuccess ==
    [][/\ (metaFile.partial /\ ~metaFile'.partial)
            => /\ pc = "fetch_done"
               /\ sess.purpose = "promote"
               /\ sess.filter = <<>>
               /\ sess.offset = NoInt
               /\ sess.total # NoInt
       /\ (pc' = "exited" /\ sess'.purpose = "promote")
            => metaFile'.partial]_vars

(* C4 - the operation in progress has promoted the type after a fetch of  *)
(* its own.                                                                *)
PromotionOnlyAfterSuccessWitness ==
    /\ Full
    /\ pc \in {"answer", "retrieve_json"}
    /\ now = metaFile.updated
    /\ get_count >= op.gets + 2
    /\ \A k \in 1..PageLimit : k \in DOMAIN files

(* C5 - a full cache is complete: when partial is false every object the  *)
(* remote service can deliver is on disk under its own URI, also after a   *)
(* full fetch one page of which went through the isolation loop.           *)
FullCacheComplete ==
    Full => \A k \in 1..NObj : k \notin bad => k \in DOMAIN files

(* C6 as stated - a getOne of an object the process has fetched before    *)
(* leaves the files and the memcache as they were when it began.           *)
GetOneIdempotent ==
    [][(pc = "retrieve_json" /\ pc' = "idle" /\ op.uri.id \in DOMAIN op.memcache)
          => (files' = op.files /\ memcache' = op.memcache)]_vars

(* C6 amended - _retrieve_json of a URI whose object the process already  *)
(* holds in its memcache, as it does after a first fetch, issues no GET    *)
(* and leaves the files and the memcache unchanged.                        *)
RetrieveJsonIdempotent ==
    [][(pc = "retrieve_json" /\ MemcacheHasObject(op.uri.id))
          => (files' = files /\ memcache' = memcache /\ get_count' = get_count)]_vars

(* C6 - _retrieve_json is about to run for an object fetched before.      *)
RetrieveJsonIdempotentWitness ==
    /\ pc = "retrieve_json"
    /\ MemcacheHasObject(op.uri.id)
    /\ op.uri.id \in DOMAIN files
    /\ metaFile.partial
    /\ get_count > 0
    /\ get_count = op.gets

(* C7 - backoff termination: a page request answered by a server fault    *)
(* after more than 60 s of accumulated sleep ends the process, the exit    *)
(* "retry_time exceeded" is taken only then, and no retry loop sleeps      *)
(* more than twice the limit in all.                                       *)
BackoffTerminates ==
    [][(pc = "fetching" /\ faultsLeft' < faultsLeft)
          => /\ Slept > RetryLimit => pc' = "exited"
             /\ (pc' = "exited" /\ exitCause' = "retry_time exceeded")
                  => Slept > RetryLimit
             /\ sess'.slept <= 2 * RetryLimit]_vars

(* C7 - the process has exited from the retry loop after more than 60 s   *)
(* of sleep.                                                               *)
BackoffTerminatesWitness ==
    /\ pc = "exited"
    /\ exitCause = "retry_time exceeded"
    /\ sess.slept > RetryLimit

(* C8 - isolation of a bad request: when the loop has skipped exactly one *)
(* offset of the page, every other object of the page is on disk under     *)
(* its own URI (RecoverySpan - 1 of them) and the fetch goes on at the     *)
(* first offset after the page.                                            *)
RecoveryStoresObjects ==
    (pc = "fetching" /\ rec.i = rec.finish /\ rec.skipped = 1 /\ ~rec.failed)
        => /\ rec.stored = RecoverySpan - 1
           /\ sess.offset = rec.finish
           /\ \A k \in ServerPage(ServerList(sess.filter),
                                  rec.finish - RecoverySpan, RecoverySpan) :
                 k \notin bad => k \in DOMAIN files

(* C9 - after n GETs of one process the rate limiter has closed the       *)
(* session floor(n / 100) times.                                           *)
RotationCount ==
    closes = get_count \div RateLimit

(* C10 - the rate limiter has run once for every GET issued: http_req     *)
(* equals get_count.                                                       *)
RateLimitEveryGet ==
    http_req = get_count

-----------------------------------------------------------------------------
(* C20: _cache_create, as the first statement of _retrieve_multi and of    *)
(* _cache_update, writes metadata only when the type has none, and then    *)
(* writes partial = true, no queries and created = updated = the current   *)
(* time; metadata that exists is left as it is.                            *)
CacheCreateOnlyWhenMissing ==
    [][((pc = "idle" /\ pc' # "idle" /\ op'.kind = "queryMany")
        \/ (pc = "cache_update" /\ pc' = cont))
       => IF metaFile.exists
          THEN metaFile' = metaFile
          ELSE /\ metaFile'.exists
               /\ metaFile'.partial
               /\ metaFile'.queries = <<>>
               /\ metaFile'.created = clock
               /\ metaFile'.updated = clock]_vars

(* a getOne on a type without metadata has just created it *)
CacheCreateOnlyWhenMissingWitness ==
    /\ op.kind = "getOne"
    /\ pc = "retrieve_json"
    /\ metaFile.exists /\ metaFile.partial /\ metaFile.queries = <<>>
    /\ metaFile.created = clock /\ metaFile.updated = clock
    /\ files = EmptyStore

-----------------------------------------------------------------------------
(* C12: a queryMany whose parameters other than time__gte and time__lt     *)
(* are those of a recorded query takes the disk branch of _retrieve_multi; *)
(* no step of a disk-branch queryMany starts a fetch of the query or adds  *)
(* an entry to the recorded queries.                                       *)
RecordedQueryFromDisk ==
    [][/\ (/\ pc = "idle"
           /\ op'.kind = "queryMany"
           /\ \E n \in 1..Len(metaFile.queries) :
                 /\ metaFile.queries[n].id = op'.uri.id
                 /\ SelectSeq(metaFile.queries[n].params, NotTimeRange)
                       = SelectSeq(op'.uri.params, NotTimeRange))
          => (op'.branch = "disk" /\ pc' = "cache_update"
              /\ get_count' = get_count /\ metaFile' = metaFile)
       /\ (op.kind = "queryMany" /\ op.branch = "disk")
          => /\ sess'.purpose # "query"
             /\ \A n \in 1..Len(metaFile'.queries) :
                   InSeq(metaFile'.queries[n], metaFile.queries)]_vars

(* the events of group 1 in a time range, answered from disk without a    *)
(* GET after the events of group 1 had been fetched with the default range *)
RecordedQueryFromDiskWitness ==
    /\ op.kind = "queryMany" /\ op.branch = "disk"
    /\ op.uri = QGroupTimed
    /\ pc = "answer"
    /\ metaFile.partial
    /\ get_count = op.gets
    /\ ~InSeq(op.uri, metaFile.queries)

-----------------------------------------------------------------------------
(* C13: whenever a queryMany reads its answer from disk, _cache_update has *)
(* run in that queryMany, on the disk branch and on the network branch     *)
(* alike: it has read the clock, a partial cache with more than 100        *)
(* recorded queries has been promoted, and the metadata of a timed type is *)
(* at most one hour old.                                                   *)
CacheUpdateBeforeAnswer ==
    (op.kind = "queryMany" /\ pc = "answer")
    => /\ now = clock
       /\ ~ShouldPromote(metaFile)
       /\ hints.timed => clock - metaFile.updated <= StaleAfter

-----------------------------------------------------------------------------
(* C14: _retrieve_json issues a GET for the object exactly when the object *)
(* is not in the memcache, has no file on disk and the metadata of its     *)
(* type has partial = true; for a type with partial = false it issues no   *)
(* GET and returns None for an object that is not on disk.                 *)
HasObjectOrFullCache ==
    [][pc = "retrieve_json"
       => /\ get_count' = get_count
             <=> \/ op.uri.id \in DOMAIN memcache
                 \/ op.uri.id \in DOMAIN files
                 \/ ~metaFile.partial
          /\ (~metaFile.partial /\ op.uri.id \notin DOMAIN files)
             => (pc' = "idle" /\ result' = None /\ http_req' = http_req
                 /\ files' = files)]_vars

(* _retrieve_json is about to run on a full cache for an object that is   *)
(* neither in the memcache nor on disk                                     *)
HasObjectOrFullCacheWitness ==
    /\ pc = "retrieve_json"
    /\ metaFile.exists /\ ~metaFile.partial
    /\ GoodId \in DOMAIN files
    /\ op.uri.id \notin DOMAIN files
    /\ op.uri.id \notin DOMAIN memcache

-----------------------------------------------------------------------------
(* C15: when the GET of _retrieve_json is answered 404 (the id belongs to  *)
(* no object), the getOne returns None to its caller, the process goes on, *)
(* and neither an object file, a memcache entry nor the metadata of the    *)
(* type is written.                                                        *)
NotFoundIsAbsent ==
    [][(/\ pc = "retrieve_json"
        /\ get_count' = get_count + 1
        /\ faultsLeft' = faultsLeft
        /\ op.uri.id \notin 1..NObj)
       => /\ pc' = "idle"
          /\ result' = None
          /\ exitCause' = exitCause
          /\ files' = files
          /\ memcache' = memcache
          /\ metaFile' = metaFile]_vars

(* the first operation of a run was a getOne answered 404: one GET, the   *)
(* process is idle, nothing is stored and no query is recorded             *)
NotFoundIsAbsentWitness ==
    /\ pc = "idle"
    /\ opsLeft = MaxOps - 1
    /\ get_count = 1
    /\ files = EmptyStore /\ memcache = EmptyStore
    /\ metaFile.exists /\ metaFile.queries = <<>>
    /\ exitCause = "none"

-----------------------------------------------------------------------------
(* C16: a request answered 500 for the first time does not end the         *)
(* process, whichever request it is: the GET of _retrieve_json, a limit=1  *)
(* request of the isolation loop, or a page request that is not already a  *)
(* retry.                                                                  *)
ServerErrorRetried ==
    [][(/\ faultsLeft' < faultsLeft
        /\ \/ pc \in {"retrieve_json", "recovering"}
           \/ (pc = "fetching" /\ sess'.status = 500 /\ ~sess.retrying))
       => pc' # "exited"]_vars

-----------------------------------------------------------------------------
(* C17: a page request of _cache_put_objects answered with a status other  *)
(* than 200, 500, or 400 once a total_count has been received, ends the    *)
(* process; a 400 before any total_count (the first page of a session)     *)
(* ends it without starting the isolation loop.                            *)
PageErrorFatal ==
    [][pc = "fetching"
       => /\ (/\ sess'.status \notin {200, 500}
              /\ ~(sess'.status = 400 /\ sess.total # NoInt))
             => /\ pc' = "exited"
                /\ exitCause' = "error status"
                /\ files' = files
                /\ metaFile' = metaFile
          /\ (sess'.status = 400 /\ sess.total = NoInt)
             => (pc' = "exited" /\ rec' = rec /\ rec' = NoRec)]_vars

(* the first page of a query was answered 400 and the process has ended   *)
(* without an isolation loop                                               *)
PageErrorFatalWitness ==
    /\ pc = "exited"
    /\ exitCause = "error status"
    /\ sess.purpose = "query"
    /\ sess.status = 400
    /\ sess.total = NoInt
    /\ rec = NoRec
    /\ get_count = op.gets + 1

-----------------------------------------------------------------------------
(* C18: a queryMany on a type without an entry in self._cache_hints ends   *)
(* the process at once: at its first step, and with no GET issued, no      *)
(* object file written, no metadata written and no query recorded in any   *)
(* of its steps.                                                           *)
UnregisteredFailsFirst ==
    [][(~Registered(objType) /\ pc # "exited" /\ op'.kind = "queryMany")
       => /\ pc = "idle" => pc' = "exited"
          /\ get_count' = get_count
          /\ files' = files
          /\ metaFile' = metaFile]_vars

-----------------------------------------------------------------------------
(* C19: the metadata file of a type, once it exists, always holds a        *)
(* complete record (the one before or the one after a save), so that every *)
(* _cache_load_metadata succeeds, also in a process started after another  *)
(* was killed while saving.                                                *)
MetadataSaveAtomic ==
    /\ metaFile.exists => Readable(metaFile)
    /\ exitCause # "metadata unreadable"

-----------------------------------------------------------------------------
(* C11: _cache_obj_matches returns, and returns true if and only if the    *)
(* clause of every parameter of the query holds for the object, the clause *)
(* of a parameter being: for a trim field, the value is the last segment   *)
(* of the reference (of one of them for a list); else for a deref field,   *)
(* the value is the named field of the object the reference names (of one  *)
(* of them for a list); else for a suffix __contains, __gte, __gt, __lte   *)
(* or __lt, that comparison with the base field; else equality.  A null    *)
(* field satisfies no clause.                                              *)
EvaluatorCorrect ==
    op.kind = "match"
    => /\ pc = "matched"
       /\ result[1]
          <=> \A n \in 1..Len(op.uri.params) :
                 LET p == op.uri.params[n]
                     json == ObjectJson(op.uri.id)
                     refs == FieldRefs(json, p[1])
                 IN /\ FieldShape(json, p[1]) # "none"
                    /\ CASE p[2] = "" /\ p[1] \in hints.trim ->
                              \E m \in 1..Len(refs) : refs[m][2] = p[3]
                         [] p[2] = "" /\ p[1] \in DOMAIN hints.deref ->
                              \E m \in 1..Len(refs) :
                                  /\ refs[m][2] \in 1..EvalObjs
                                  /\ DocIdBase + refs[m][2] = p[3]
                         [] p[2] = "__contains" -> p[3] \in FieldText(json, p[1])
                         [] p[2] = "__gte" -> Field(json, p[1]) >= p[3]
                         [] p[2] = "__gt" -> Field(json, p[1]) > p[3]
                         [] p[2] = "__lte" -> Field(json, p[1]) <= p[3]
                         [] p[2] = "__lt" -> Field(json, p[1]) < p[3]
                         [] OTHER -> Field(json, p[1]) = p[3]

-----------------------------------------------------------------------------
(* C21: _cache_update starts the fetch of the whole type, without a        *)
(* filter, exactly when the metadata has partial = true and more than 100  *)
(* recorded queries; no other step starts such a fetch; and when the fetch *)
(* has ended the metadata is written with partial = false, no queries and  *)
(* updated = the time read at the start of _cache_update, created kept.    *)
PromoteExactlyAbove100 ==
    [][/\ pc = "cache_update"
          => ((sess'.purpose = "promote" /\ pc' = "fetching")
              <=> (metaFile.partial /\ Len(metaFile.queries) > 100))
       /\ (sess'.purpose = "promote" /\ sess.purpose # "promote")
          => (pc = "cache_update" /\ sess'.filter = <<>> /\ sess'.offset = 0)
       /\ (pc = "fetch_done" /\ sess.purpose = "promote")
          => /\ ~metaFile'.partial
             /\ metaFile'.queries = <<>>
             /\ metaFile'.updated = now
             /\ now = clock
             /\ metaFile'.created = metaFile.created]_vars

(* an hour after the start, a type with 101 recorded queries has been     *)
(* promoted by the operation in progress                                   *)
PromoteExactlyAbove100Witness ==
    /\ pc \in {"answer", "retrieve_json"}
    /\ metaFile.exists /\ ~metaFile.partial
    /\ metaFile.queries = <<>>
    /\ metaFile.created = PriorTime
    /\ metaFile.updated = clock
    /\ now = clock
    /\ clock > InitClock
    /\ get_count > op.gets

-----------------------------------------------------------------------------
(* C22: _cache_update starts the fetch of the objects modified in          *)
(* [updated, now) exactly when it does not promote, the metadata is more   *)
(* than one hour old and the type is timed; the step after a promotion     *)
(* starts none; when the fetch has ended only `updated` is written, as     *)
(* now; for a type that is not timed a _cache_update that does not promote *)
(* issues no GET and leaves existing metadata as it is.                    *)
RefreshExactlyWhenStale ==
    [][/\ pc = "cache_update"
          => /\ (sess'.purpose = "refresh" /\ pc' = "fetching")
                <=> /\ ~(metaFile.partial /\ Len(metaFile.queries) > 100)
                    /\ metaFile.exists
                    /\ clock - metaFile.updated > 1
                    /\ objType = TypeGroupEvent
             /\ sess'.purpose = "refresh"
                => sess'.filter = <<<<"time", "__gte", metaFile.updated>>,
                                    <<"time", "__lt", clock>>>>
             /\ (objType = TypeGroupUrl /\ sess'.purpose # "promote")
                => /\ pc' = cont
                   /\ get_count' = get_count
                   /\ metaFile.exists => metaFile' = metaFile
       /\ (pc = "fetch_done" /\ sess.purpose = "promote")
          => sess'.purpose # "refresh"
       /\ (pc = "fetch_done" /\ sess.purpose = "refresh")
          => (metaFile' = [metaFile EXCEPT !.updated = now] /\ now = clock)
       /\ sess'.purpose = "refresh" => objType = TypeGroupEvent]_vars

(* the metadata of a partial cache of a timed type, two hours old, has    *)
(* been brought up to date by the operation in progress                    *)
RefreshExactlyWhenStaleWitness ==
    /\ pc \in {"answer", "retrieve_json"}
    /\ objType = TypeGroupEvent
    /\ metaFile.partial
    /\ metaFile.updated = clock
    /\ metaFile.created = PriorTime
    /\ now = clock
    /\ clock - PriorTime > StaleAfter
    /\ get_count > op.gets

-----------------------------------------------------------------------------
(* C23: a call of _cache_obj_matches issues a GET only for a reference of  *)
(* a deref parameter whose object is not in the cache, and at most one per *)
(* such reference and parameter: a query without a deref parameter issues  *)
(* no GET and writes nothing, and what a call writes are objects that      *)
(* references of the matched object name (one hop).                        *)
DerefOnlyFetch ==
    [][(pc = "idle" /\ op'.kind = "match")
       => LET json == ObjectJson(op'.uri.id)
              params == op'.uri.params
              derefs == {n \in 1..Len(params) :
                            /\ params[n][2] = ""
                            /\ params[n][1] \notin hints.trim
                            /\ params[n][1] \in DOMAIN hints.deref}
              RefsOf(n) == {FieldRefs(json, params[n][1])[m] :
                               m \in 1..Len(FieldRefs(json, params[n][1]))}
              Cached(r) == \/ RefKeyBase + r[2] \in DOMAIN files
                           \/ RefKeyBase + r[2] \in DOMAIN memcache
          IN /\ derefs = {} => (get_count' = get_count /\ http_req' = http_req
                                /\ files' = files /\ memcache' = memcache)
             /\ get_count' > get_count
                => \E n \in derefs : \E r \in RefsOf(n) : ~Cached(r)
             /\ (\A n \in derefs : \A r \in RefsOf(n) : Cached(r))
                => (get_count' = get_count /\ files' = files)
             /\ get_count' - get_count
                <= Cardinality({<<n, r>> \in derefs \X UNION {RefsOf(n) : n \in derefs} :
                                   r \in RefsOf(n) /\ ~Cached(r)})
             /\ http_req' - http_req = get_count' - get_count
             /\ \A key \in DOMAIN files' \ DOMAIN files :
                   \E n \in derefs : \E r \in RefsOf(n) :
                       key = RefKeyBase + r[2]]_vars

(* a call has dereferenced a list of two references, the first to an      *)
(* object that does not exist and the second to one not yet in the cache   *)
DerefOnlyFetchWitness ==
    /\ op.kind = "match"
    /\ pc = "matched"
    /\ result[1]
    /\ get_count = op.gets + 2
    /\ RefKeyBase + 1 \in DOMAIN files
    /\ RefKeyBase + 1 \notin DOMAIN op.files

-----------------------------------------------------------------------------
(* C24: the step in which _cache_put_objects ends the process, and the     *)
(* start of the next process, leave every object file as it is; when the   *)
(* process ends on a page request of a session that has not gone through   *)
(* the isolation loop, every object of the pages before it is on disk.     *)
FatalKeepsEarlierPages ==
    [][/\ (pc' = "exited" \/ pc = "exited")
          => \A k \in DOMAIN files \ {0} :
                k \in DOMAIN files' /\ files'[k] = files[k]
       /\ (pc = "fetching" /\ pc' = "exited" /\ rec = NoRec)
          => \A n \in 1..Len(ServerList(sess.filter)) :
                n <= sess.offset
                => /\ ServerList(sess.filter)[n] \in DOMAIN files'
                   /\ files'[ServerList(sess.filter)[n]]
                         = ObjectJson(ServerList(sess.filter)[n])]_vars

(* the process has ended on the second page of a fetch and the objects of *)
(* the first page are on disk                                              *)
FatalKeepsEarlierPagesWitness ==
    /\ pc = "exited"
    /\ exitCause = "error status"
    /\ sess.offset = PageLimit
    /\ sess.status = 503
    /\ \A k \in 1..PageLimit : k \in DOMAIN files /\ files[k] = ObjectJson(k)
    /\ PageLimit + 1 \notin DOMAIN files

-----------------------------------------------------------------------------
(* C25: an entry is added to metadata.queries only by the step that        *)
(* follows the last page of the fetch of that query (or by a single-object *)
(* fetch answered 200), and `updated` of existing metadata changes only in *)
(* the step that follows the last page of a refresh or promotion fetch; a  *)
(* step that ends the process changes neither, so that a new process finds *)
(* the query unrecorded and the metadata as old as before.                 *)
MetadataOnlyAfterDone ==
    [][/\ (metaFile'.queries # metaFile.queries /\ metaFile'.queries # <<>>)
          => \/ /\ pc = "fetch_done"
                /\ sess.purpose = "query"
                /\ sess.offset = NoInt
                /\ sess.status = 200
                /\ metaFile'.queries
                      = Append(metaFile.queries,
                               URI(op.uri.id, SelectSeq(op.uri.params, NotTimeRange)))
             \/ /\ pc = "retrieve_json"
                /\ op.uri.id \in DOMAIN files'
                /\ metaFile'.queries = Append(metaFile.queries, op.uri)
       /\ (metaFile.exists /\ metaFile'.updated # metaFile.updated)
          => /\ pc = "fetch_done"
             /\ sess.purpose \in {"refresh", "promote"}
             /\ sess.offset = NoInt
             /\ sess.status = 200
       /\ (pc' = "exited" \/ pc = "exited")
          => /\ metaFile'.queries = metaFile.queries
             /\ metaFile'.updated = metaFile.updated
             /\ metaFile'.partial = metaFile.partial]_vars

(* a new process fetches the whole collection again, from its first page, *)
(* after the process before it had stored the first page and ended: the    *)
(* query was not recorded                                                  *)
MetadataOnlyAfterDoneWitness ==
    /\ op.kind = "queryMany" /\ op.branch = "network" /\ op.uri = QAll
    /\ pc = "fetching"
    /\ sess.offset = 0
    /\ get_count = 0
    /\ metaFile.created = InitClock
    /\ metaFile.queries = <<>>
    /\ \A k \in 1..PageLimit : k \in DOMAIN files

-----------------------------------------------------------------------------
(* C26: the isolation loop of a page at offset pageOffset requests the     *)
(* offsets from pageOffset up to, and not including, the smaller of        *)
(* pageOffset + 100 and total_count: it issues no limit=1 request for an   *)
(* offset that is not below total_count.                                   *)
RecoveryWithinTotal ==
    [][pc = "recovering"
       => /\ rec.finish = Min(sess.offset + 100, sess.total)
          /\ get_count' > get_count => rec.i < sess.total]_vars

-----------------------------------------------------------------------------
(* C27: the isolation of a page ends the process exactly when every       *)
(* limit=1 request of its range failed (an empty range included); if at   *)
(* least one of the requests was answered 200, the fetch goes on with the *)
(* next page.                                                              *)
RecoveryFatalIffAllFail ==
    [][(pc = "recovering" /\ pc' # "recovering")
       => /\ pc' = "exited" <=> rec'.stored = 0
          /\ pc' = "fetching" <=> rec'.stored > 0]_vars

-----------------------------------------------------------------------------
(* C28: a page request answered 500 sleeps 1.875 s if the request before  *)
(* it in the fetch was not answered 500 (first failure of a page) and     *)
(* twice the previous sleep otherwise; no sleep is longer than 60 s, and   *)
(* the process ends without sleeping exactly when the interval due is      *)
(* longer than 60 s.                                                       *)
BackoffIntervals ==
    [][(pc = "fetching" /\ get_count' > get_count /\ sess'.status = 500)
       => LET interval == IF sess.status = 500 THEN sess.retry_time
                          ELSE RetryStart
          IN IF interval > RetryLimit
             THEN /\ pc' = "exited"
                  /\ sess'.slept = Slept
                  /\ errCloses' = errCloses
             ELSE /\ pc' = "fetching"
                  /\ sess'.slept = Slept + interval
                  /\ sess'.retry_time = 2 * interval
                  /\ errCloses' = errCloses + 1]_vars

(* C28 - a retry loop has slept 60 s, its sixth sleep, and goes on with   *)
(* the request of the same page.                                           *)
BackoffIntervalsWitness ==
    /\ pc = "fetching"
    /\ sess.status = 500
    /\ sess.retry_time = 2 * RetryLimit
    /\ sess.slept = 2 * RetryLimit - RetryStart

-----------------------------------------------------------------------------
(* C29: every fetch ends, with all its pages requested or with the exit   *)
(* of the process: a request of a page answered 500 adds to the sleep of   *)
(* that page, which is bounded, and after a page answered 200 and after    *)
(* an isolation the next page request has a greater offset.                *)
FetchTerminates ==
    /\ (pc \in {"fetching", "recovering"}) ~> (pc \in {"fetch_done", "exited"})
    /\ [][(pc \in {"fetching", "recovering"} /\ pc' = "fetching")
          => \/ sess'.offset > sess.offset
             \/ /\ sess'.offset = sess.offset
                /\ sess'.status = 500
                /\ sess'.slept > Slept
                /\ sess'.slept <= 2 * RetryLimit]_vars

(* C29 - a fetch has requested all its pages after retries of a page and  *)
(* the isolation of another.                                               *)
FetchTerminatesWitness ==
    /\ pc = "fetch_done"
    /\ errCloses > 0
    /\ rec.i = rec.finish
    /\ rec.stored > 0

-----------------------------------------------------------------------------
(* C30: no connection of the session carries more than 100 GETs: between  *)
(* two closes of the session, by _rate_limit or by the 500 handler, at     *)
(* most 100 requests are sent, whatever the order of object requests,      *)
(* page requests, retries and requests of the isolation loop.              *)
ConnectionWithinLimit ==
    conn <= RateLimit

(* C30 - a connection has carried 100 GETs in a process whose 500 handler *)
(* has closed the session.                                                 *)
ConnectionWithinLimitWitness ==
    /\ conn = RateLimit
    /\ errCloses > 0

-----------------------------------------------------------------------------
-----------------------------------------------------------------------------
(* C32: the recorded queries of a type are distinct: no query string is   *)
(* twice in the queries list of the metadata, whatever getOne and          *)
(* queryMany operations have run.                                          *)
QueriesDistinct ==
    Cardinality(Range(metaFile.queries)) = Len(metaFile.queries)

(* C32 - a query whose string is recorded is asked again, with another    *)
(* time range, after the object of a getOne was recorded too.              *)
QueriesDistinctWitness ==
    /\ pc = "answer"
    /\ op.uri = QGroupTimed
    /\ metaFile.queries = <<ObjUri(GoodId), CacheUri(QGroup)>>

-----------------------------------------------------------------------------
(* C33: metadata on disk with partial = false has no recorded queries:    *)
(* the switch to a full cache empties the list, and neither a collection   *)
(* query nor the fetch of an object is recorded for a full cache.          *)
FullCacheNoQueries ==
    (metaFile.exists /\ ~metaFile.partial) => metaFile.queries = <<>>

(* C33 - a collection query is answered for a type that an earlier        *)
(* operation of the process switched to a full cache.                      *)
FullCacheNoQueriesWitness ==
    /\ Full
    /\ pc = "answer"
    /\ op.kind = "queryMany"
    /\ opsLeft = 0

-----------------------------------------------------------------------------
(* C34: the recorded queries of a partial cache stay within the limit of  *)
(* the switch to a full cache: the list never has more than 101 entries,   *)
(* since the first operation that finds more than 100 makes the cache      *)
(* full.                                                                   *)
QueriesBounded ==
    (metaFile.exists /\ metaFile.partial)
        => Len(metaFile.queries) <= PromoteAfter + 1

-----------------------------------------------------------------------------
(* C35: no operation reads the metadata of a type that has none: when     *)
(* _cache_obj_matches follows a reference to an object of another type     *)
(* that is not in the cache, the _cache_has_object of that object does not *)
(* fail on a missing _cache_info.json.                                     *)
MetadataReadAfterCreate ==
    exitCause # "FileNotFoundError"

-----------------------------------------------------------------------------
(* C36: the memcache is coherent with the disk: every URI in the memcache *)
(* has a file on disk, and the file holds the JSON of the memcache entry.  *)
MemcacheCoherent ==
    \A k \in DOMAIN memcache :
        /\ k \in DOMAIN files
        /\ files[k] = memcache[k]

(* a getOne has fetched an object and written it to both, and the answer   *)
(* of a query has loaded other objects from the disk into the memcache     *)
MemcacheCoherentWitness ==
    /\ pc = "idle"
    /\ get_count > 0
    /\ GoodId \in DOMAIN memcache
    /\ \E k \in DOMAIN memcache : k # GoodId
    /\ DOMAIN memcache # DOMAIN files

-----------------------------------------------------------------------------
(* C37: the delta fetches of a timed type tile the timeline. A delta fetch *)
(* starts with time__gte = the stored `updated` and time__lt = now, the    *)
(* time taken before the fetch; its window does not change while it runs;  *)
(* `updated` changes only at the end of a delta fetch or of the switch to  *)
(* a full cache, and then to the `now` of that _cache_update, which for a  *)
(* delta fetch is its time__lt: the next window starts where this one      *)
(* ended.                                                                  *)
RefreshWindowsTile ==
    [][/\ (sess'.purpose = "refresh" /\ sess.purpose # "refresh")
          => /\ sess'.filter = <<Param("time", "__gte", metaFile'.updated),
                                 Param("time", "__lt", now')>>
             /\ now' = clock
             /\ metaFile'.updated < now'
       /\ (sess'.purpose = "refresh" /\ sess.purpose = "refresh")
          => /\ sess'.filter = sess.filter
             /\ metaFile'.updated = metaFile.updated
             /\ now' = now
       /\ (pc = "fetch_done" /\ sess.purpose = "refresh" /\ pc' # "exited")
          => /\ metaFile.updated = sess.filter[1][3]
             /\ metaFile'.updated = sess.filter[2][3]
       /\ (metaFile.exists /\ metaFile'.exists
           /\ metaFile'.updated # metaFile.updated)
          => /\ pc = "fetch_done"
             /\ sess.purpose \in {"refresh", "promote"}
             /\ metaFile'.updated = now
             /\ metaFile'.updated > metaFile.updated]_vars

(* a delta fetch is running whose time__gte is the `updated` that the      *)
(* switch to a full cache stored, one tick after the creation of the cache *)
RefreshWindowsTileWitness ==
    /\ pc = "fetching"
    /\ sess.purpose = "refresh"
    /\ ~metaFile.partial
    /\ metaFile.created = PriorTime
    /\ sess.filter = <<Param("time", "__gte", InitClock),
                       Param("time", "__lt", MaxClock)>>

-----------------------------------------------------------------------------
(* C38: each limit=1 request of the isolation loop and the page request    *)
(* that follows it carry every filter parameter of the failed page request *)
(* with its value; only offset and limit differ from the failed request.   *)
RebuiltKeepsFilter ==
    (pc \in {"rebuilding", "rebuilt"} /\ result # <<>>)
    => LET failed == PageQuery(sess.filter, sess.offset)
           sent == result[1]
       IN /\ Len(sent) = Len(failed)
          /\ \A n \in 1..Len(failed) :
                /\ sent[n][1] = failed[n][1]
                /\ sent[n][2] = failed[n][2]
                /\ failed[n][1] \notin {"offset", "limit"}
                   => sent[n][3] = failed[n][3]

-----------------------------------------------------------------------------
(* C39: the cache of a mailing list.  update() asks the server for exactly *)
(* the message ids of the folder that have no <id>.msg file, and opens a   *)
(* download only for such an id; a <id>.msg file appears only by the rename *)
(* of a <id>.msg.download file that holds the whole message; and when       *)
(* update() has returned, every message asked for is in new_msgs, every     *)
(* message of the list has its file, and num_messages() is the number of    *)
(* .msg files.                                                              *)
MailCacheUpdate ==
    [][/\ mail'.updates # mail.updates
          => mail'.msg_fetch = mail.server \ mail.msgs
       /\ mail'.pc = "opened"
          => /\ mail'.msg_id \in mail'.msg_fetch
             /\ mail'.msg_id \notin mail.msgs
       /\ \A id \in mail'.msgs \ mail.msgs :
             /\ id \in mail.downloads
             /\ id \notin mail.cut
             /\ id \notin mail'.downloads
       /\ mail'.pc = "returned"
          => /\ mail'.new_msgs = mail'.msg_fetch
             /\ mail'.msg_list \subseteq mail'.msgs
             /\ mail'.num_messages = Cardinality(mail'.msgs)]_vars

(* the second update() of a process has returned: it has fetched the one   *)
(* message that arrived after the first, which fetched the others           *)
MailCacheUpdateWitness ==
    /\ mail.pc = "returned"
    /\ mail.updates = 0
    /\ mail.new_msgs = {MaxMsg}
    /\ mail.msgs = MsgIds
    /\ mail.num_messages = MaxMsg

====
